---- MODULE Spec2Model ----
(***************************************************************************)
(* A model of the protocol codec of tame-gcs: the multipart upload body    *)
(* encoder (Multipart), the streaming response decoder (Response), the     *)
(* default response classification (ApiResponse::try_from_parts) and the   *)
(* resumable-upload response decoding (ResumableInsertResponse).           *)
(*                                                                         *)
(* Bytes and characters are their ASCII codes; a byte string is a sequence *)
(* of codes.  An Option<T> is a sequence of at most one element: <<>> is   *)
(* None and <<v>> is Some(v).                                              *)
(***************************************************************************)
EXTENDS Integers, Sequences, FiniteSets, TLC

VARIABLES
    args,       \* the arguments wrap / insert_multipart were called with
    mp,         \* the Multipart encoder (body, prefix, body_len, total_len, cursor)
    iface,      \* the interface the caller consumes the encoder through
    out,        \* every byte the encoder has handed to the caller so far
    eosOut,     \* Some(out) as it was when a call first returned zero bytes / None
    ret,        \* what the last call on the encoder returned
    clen,       \* Some(Content-Length of the insert_multipart request)
    rx,         \* the response a transport is receiving: its parts and its payload
    dec,        \* Some(the Response<T> decoder) while its caller owns it / None
    written,    \* every byte written into the decoder so far
    outcome,    \* the decode attempt made on the decoder, and its result
    ty,         \* T, the response type a response is decoded into
    response,   \* the http::Response handed to T::try_from_parts
    build,      \* the build profile: whether integer overflow is checked
    result,     \* what T::try_from_parts returned
    pc,         \* "call" before try_from_parts is called, "done" after
    sig,        \* what UrlSigner::generate is called with, and the clock
    url,        \* what each call of generate returned, oldest first
    calls,      \* the capabilities generate has invoked, oldest first
    name,       \* the string a BucketName or ObjectName is made of
    valid,      \* what validating the name returned
    insArgs,    \* the arguments Object::insert_simple is called with
    built,      \* Some(what insert_simple returned) / None before the call
    pool        \* the encoders and decoders of several callers, by owner

encVars == <<args, mp, iface, out, eosOut, ret, clen>>

decVars == <<rx, dec, written, outcome>>

callVars == <<response, build, result, pc>>

signVars == <<sig, url, calls>>

nameVars == <<name, valid>>

insVars == <<insArgs, built>>

vars == <<args, mp, iface, out, eosOut, ret, clen, rx, dec, written, outcome, ty, response, build,
          result, pc, sig, url, calls, name, valid, insArgs, built, pool>>

----------------------------------------------------------------------------
(* Bounds of the model *)

\* the longest inner body offered to the encoder
MaxBody == 2
\* the largest declared body_length
MaxBodyLen == 2
\* the small read buffers are 1..MaxBuf bytes long
MaxBuf == 2
\* a read buffer larger than any complete multipart payload of the model
BigBuf == 160
\* an inner reader hands out at most 1..MaxChunk bytes per read
MaxChunk == 2
\* the small Content-Length values are 0..MaxContentLength
MaxContentLength == 5
\* the transport writes 1..MaxWrite bytes at a time, or all that is left
MaxWrite == 2

----------------------------------------------------------------------------
(* Helpers *)

Min(a, b) == IF a <= b THEN a ELSE b

None == <<>>

Some(v) == <<v>>

IsSome(o) == Len(o) = 1

IsPrefixOf(s, t) == Len(s) <= Len(t) /\ SubSeq(t, 1, Len(s)) = s

----------------------------------------------------------------------------
(* multipart.rs: constants *)

\* b"--tame_gcs\n"
MULTI_PART_SEPARATOR == <<45, 45, 116, 97, 109, 101, 95, 103, 99, 115, 10>>

\* b"\n--tame_gcs--"
MULTI_PART_SUFFIX == <<10, 45, 45, 116, 97, 109, 101, 95, 103, 99, 115, 45, 45>>

\* b"content-type: application/json; charset=utf-8\n\n"
MULTI_PART_CT ==
    <<99, 111, 110, 116, 101, 110, 116, 45, 116, 121, 112, 101, 58, 32, 97, 112,
      112, 108, 105, 99, 97, 116, 105, 111, 110, 47, 106, 115, 111, 110, 59, 32,
      99, 104, 97, 114, 115, 101, 116, 61, 117, 116, 102, 45, 56, 10, 10>>

\* b"content-type: "
CT_HN == <<99, 111, 110, 116, 101, 110, 116, 45, 116, 121, 112, 101, 58, 32>>

\* "application/octet-stream"
DefaultContentType ==
    <<97, 112, 112, 108, 105, 99, 97, 116, 105, 111, 110, 47, 111, 99, 116, 101,
      116, 45, 115, 116, 114, 101, 97, 109>>

----------------------------------------------------------------------------
(* Metadata and its JSON serialization (serde_json::to_vec) *)

\* "text/plain"
TextPlain == <<116, 101, 120, 116, 47, 112, 108, 97, 105, 110>>

\* the metadata values of the model: only the writable fields name and
\* content_type are set, every other field is None.  The second name is a"b.
Metadatas ==
    { [name |-> Some(<<110>>),         content_type |-> Some(TextPlain)],
      [name |-> Some(<<97, 34, 98>>),  content_type |-> None],
      [name |-> None,                  content_type |-> Some(<<120>>)],
      [name |-> None,                  content_type |-> None] }

\* serde_json's string escaping of '"' and '\' (the strings of the model hold
\* no control characters)
RECURSIVE JsonEscape(_)
JsonEscape(s) ==
    IF s = <<>> THEN <<>>
    ELSE (IF Head(s) \in {34, 92} THEN <<92, Head(s)>> ELSE <<Head(s)>>)
         \o JsonEscape(Tail(s))

JsonString(s) == <<34>> \o JsonEscape(s) \o <<34>>

\* one field of the camelCase struct: skipped when None
\* (skip_serializing_if = "Option::is_none")
JsonField(key, opt) ==
    IF IsSome(opt) THEN <<JsonString(key) \o <<58>> \o JsonString(opt[1])>> ELSE <<>>

RECURSIVE JoinComma(_)
JoinComma(fs) ==
    IF fs = <<>> THEN <<>>
    ELSE IF Len(fs) = 1 THEN fs[1]
    ELSE fs[1] \o <<44>> \o JoinComma(Tail(fs))

\* serde_json::to_vec(metadata): {"name":"..","contentType":".."}
SerializeMetadata(metadata) ==
    <<123>>
    \o JoinComma(JsonField(<<110, 97, 109, 101>>, metadata.name)
                 \o JsonField(<<99, 111, 110, 116, 101, 110, 116, 84, 121, 112, 101>>,
                              metadata.content_type))
    \o <<125>>

----------------------------------------------------------------------------
(* The inner body: an io::Read / AsyncRead over `data`, or the Bytes itself *)

\* the bytes an inner body may hold
BodyBytes == <<97, 98, 99, 100, 101, 102, 103, 104>>

\* a reader over data that hands out at most `chunk` bytes per call
NewBody(data, chunk) == [data |-> data, pos |-> 0, chunk |-> chunk]

\* body.read(buf) with a buffer of n bytes: the bytes copied and the reader after
BodyRead(body, n) ==
    LET k == Min(Min(n, Len(body.data) - body.pos), body.chunk)
    IN  [bytes |-> SubSeq(body.data, body.pos + 1, body.pos + k),
         body  |-> [body EXCEPT !.pos = body.pos + k]]

----------------------------------------------------------------------------
(* MultipartPart, MultipartCursor, Multipart::wrap, total_len *)

\* a next that goes from Body straight to End
PartNextSkipsSuffix(part) ==
    CASE part = "Prefix" -> "Body"
      [] part = "Body"   -> "End"
      [] part = "Suffix" -> "End"
      [] OTHER           -> "unreachable"

\* MultipartPart::next; End is unreachable!()
PartNext(part) ==
    CASE part = "Prefix" -> "Body"
      [] part = "Body"   -> "Suffix"
      [] part = "Suffix" -> "End"
      [] OTHER           -> "unreachable"

wrap(body, body_length, metadata) ==
    LET serialized_metadata == SerializeMetadata(metadata)
        content_type == IF IsSome(metadata.content_type)
                        THEN metadata.content_type[1]
                        ELSE DefaultContentType
        prefix_len == Len(MULTI_PART_SEPARATOR) + Len(MULTI_PART_CT)
                      + Len(serialized_metadata) + 1
                      + Len(MULTI_PART_SEPARATOR) + Len(CT_HN)
                      + Len(content_type) + 2
        prefix == MULTI_PART_SEPARATOR \o MULTI_PART_CT \o serialized_metadata
                  \o <<10>> \o MULTI_PART_SEPARATOR \o CT_HN \o content_type
                  \o <<10, 10>>
    IN  [body      |-> body,
         prefix    |-> prefix,
         body_len  |-> body_length,
         total_len |-> prefix_len + body_length + Len(MULTI_PART_SUFFIX),
         cursor    |-> [position |-> 0, part |-> "Prefix"]]

total_len(m) == m.total_len

----------------------------------------------------------------------------
(* impl io::Read for Multipart<B> *)

\* the match on self.cursor.part with `room` bytes left in the buffer: the
\* bytes copied, the length of the current segment, the inner body afterwards.
\* The subtraction len - position is on usize: it panics when it underflows.
CopyPart(m, room) ==
    LET position == m.cursor.position
    IN  CASE m.cursor.part = "Prefix" ->
               IF position > Len(m.prefix)
               THEN [panic |-> TRUE, bytes |-> <<>>, len |-> Len(m.prefix), body |-> m.body]
               ELSE LET to_copy == Min(room, Len(m.prefix) - position)
                    IN  [panic |-> FALSE,
                         bytes |-> SubSeq(m.prefix, position + 1, position + to_copy),
                         len   |-> Len(m.prefix),
                         body  |-> m.body]
          [] m.cursor.part = "Body" ->
               LET r == BodyRead(m.body, room)
               IN  [panic |-> FALSE, bytes |-> r.bytes, len |-> m.body_len, body |-> r.body]
          [] OTHER ->
               IF position > Len(MULTI_PART_SUFFIX)
               THEN [panic |-> TRUE, bytes |-> <<>>, len |-> Len(MULTI_PART_SUFFIX),
                     body |-> m.body]
               ELSE LET to_copy == Min(room, Len(MULTI_PART_SUFFIX) - position)
                    IN  [panic |-> FALSE,
                         bytes |-> SubSeq(MULTI_PART_SUFFIX, position + 1, position + to_copy),
                         len   |-> Len(MULTI_PART_SUFFIX),
                         body  |-> m.body]

\* CursorAdvance without `self.cursor.position = 0` on leaving a part
CursorAdvanceKeepsPosition(cursor, copied, len) ==
    IF cursor.position + copied = len
    THEN [position |-> cursor.position + copied, part |-> PartNext(cursor.part)]
    ELSE [position |-> cursor.position + copied, part |-> cursor.part]

\* self.cursor.position += copied; if self.cursor.position == len
\* { self.cursor.part.next(); self.cursor.position = 0; }
CursorAdvance(cursor, copied, len) ==
    IF cursor.position + copied = len
    THEN [position |-> 0, part |-> PartNext(cursor.part)]
    ELSE [position |-> cursor.position + copied, part |-> cursor.part]

\* one pass through `self.cursor.position += copied; if ... { next(); ... }`:
\* the cursor before, the bytes copied, the length compared with, the cursor
\* after
CursorStep(cursor, copied, len) ==
    [from |-> cursor, copied |-> copied, len |-> len, to |-> CursorAdvance(cursor, copied, len)]

\* the while loop of read, with `acc` the bytes copied into the buffer so far;
\* `steps` are the cursor steps of the call, in order.
\* An iteration in Body that copies nothing and leaves the part changes no
\* state, so the loop repeats it for ever: the call does not return ("hang").
RECURSIVE ReadLoop(_, _, _)
ReadLoop(m, n, acc) ==
    IF ~(Len(acc) < n) \/ m.cursor.part = "End"
    THEN [mp |-> m, bytes |-> acc, end |-> "ok", steps |-> <<>>]
    ELSE LET c    == CopyPart(m, n - Len(acc))
             next == [m EXCEPT !.body = c.body,
                               !.cursor = CursorAdvance(m.cursor, Len(c.bytes), c.len)]
             rest == ReadLoop(next, n, acc \o c.bytes)
         IN  IF c.panic THEN [mp |-> m, bytes |-> acc, end |-> "panic", steps |-> <<>>]
             ELSE IF next = m
                  THEN [mp |-> m, bytes |-> acc, end |-> "hang",
                        steps |-> <<CursorStep(m.cursor, Len(c.bytes), c.len)>>]
             ELSE [rest EXCEPT !.steps = <<CursorStep(m.cursor, Len(c.bytes), c.len)>> \o @]

\* Multipart::read with a buffer of n bytes
read(m, n) == ReadLoop(m, n, <<>>)

----------------------------------------------------------------------------
(* impl AsyncRead for Multipart<B>, impl Stream for Multipart<Bytes> *)

\* poll_read with a buffer of n bytes whose inner poll is Ready: one match,
\* one cursor advance, no loop
poll_read(m, n) ==
    IF m.cursor.part = "End"
    THEN [mp |-> m, bytes |-> <<>>, end |-> "ok", steps |-> <<>>]
    ELSE LET c == CopyPart(m, n)
         IN  IF c.panic THEN [mp |-> m, bytes |-> <<>>, end |-> "panic", steps |-> <<>>]
             ELSE [mp    |-> [m EXCEPT !.body = c.body,
                                       !.cursor = CursorAdvance(m.cursor, Len(c.bytes), c.len)],
                   bytes |-> c.bytes,
                   end   |-> "ok",
                   steps |-> <<CursorStep(m.cursor, Len(c.bytes), c.len)>>]

\* a poll_next that calls next() in End as in every other phase
poll_next_unfused(m) ==
    CASE m.cursor.part = "Prefix" ->
           [mp |-> [m EXCEPT !.cursor.part = PartNext(m.cursor.part)], item |-> Some(m.prefix)]
      [] m.cursor.part = "Body" ->
           [mp |-> [m EXCEPT !.cursor.part = PartNext(m.cursor.part)], item |-> Some(m.body.data)]
      [] m.cursor.part = "Suffix" ->
           [mp |-> [m EXCEPT !.cursor.part = PartNext(m.cursor.part)],
            item |-> Some(MULTI_PART_SUFFIX)]
      [] OTHER -> [mp |-> [m EXCEPT !.cursor.part = PartNext(m.cursor.part)], item |-> None]

\* poll_next: the next chunk (an Option) and the encoder afterwards
poll_next(m) ==
    CASE m.cursor.part = "Prefix" ->
           [mp |-> [m EXCEPT !.cursor.part = PartNext(m.cursor.part)], item |-> Some(m.prefix)]
      [] m.cursor.part = "Body" ->
           [mp |-> [m EXCEPT !.cursor.part = PartNext(m.cursor.part)], item |-> Some(m.body.data)]
      [] m.cursor.part = "Suffix" ->
           [mp |-> [m EXCEPT !.cursor.part = PartNext(m.cursor.part)],
            item |-> Some(MULTI_PART_SUFFIX)]
      [] OTHER -> [mp |-> m, item |-> None]

----------------------------------------------------------------------------
(* Object::insert_multipart *)

\* The request built around the encoder: its headers and its body.  The names
\* of Metadatas are valid object names, so ObjectName::try_from succeeds on
\* them; a metadata without a name is refused with InvalidLength.
insert_multipart(content, length, metadata) ==
    IF ~IsSome(metadata.name)
    THEN [ok |-> FALSE, err |-> [kind |-> "InvalidLength", len |-> 0, min |-> 1, max |-> 1024]]
    ELSE LET multipart == wrap(content, length, metadata)
         IN  [ok             |-> TRUE,
              method         |-> "POST",
              content_type   |-> "multipart/related; boundary=tame_gcs",
              content_length |-> total_len(multipart),
              body           |-> multipart]

----------------------------------------------------------------------------
(* Unsigned 64-bit integers                                                *)
(*                                                                         *)
(* A u64 is four 16-bit limbs, least significant first, so that values up  *)
(* to 2^64 - 1 keep their width.                                           *)

\* the base of one limb, 2^16
LimbBase == 65536

U64Zero == <<0, 0, 0, 0>>

\* limbs * m + carry, limb by limb: the low limbs and the carry out of the top
RECURSIVE MulAddLimbs(_, _, _)
MulAddLimbs(v, m, carry) ==
    IF v = <<>> THEN [limbs |-> <<>>, carry |-> carry]
    ELSE LET t    == Head(v) * m + carry
             rest == MulAddLimbs(Tail(v), m, t \div LimbBase)
         IN  [limbs |-> <<t % LimbBase>> \o rest.limbs, carry |-> rest.carry]

\* u64 from a model-sized natural number
U64(n) == MulAddLimbs(U64Zero, 1, n).limbs

\* `x as usize` for the values a model-sized buffer can hold
AsUsize(v) == v[1] + LimbBase * v[2]

IsDigit(c) == c >= 48 /\ c <= 57

\* the digit loop of from_str_radix: checked_mul(10) then checked_add(digit)
RECURSIVE ParseDigits(_, _)
ParseDigits(digits, acc) ==
    IF digits = <<>> THEN [ok |-> TRUE, v |-> acc]
    ELSE IF ~IsDigit(Head(digits)) THEN [ok |-> FALSE, v |-> U64Zero]
    ELSE LET r == MulAddLimbs(acc, 10, Head(digits) - 48)
         IN  IF r.carry > 0 THEN [ok |-> FALSE, v |-> U64Zero]
             ELSE ParseDigits(Tail(digits), r.limbs)

\* str::parse::<u64>(): empty and lone sign are errors, one leading '+' is
\* accepted, every other character must be a decimal digit, overflow is an error
ParseU64(src) ==
    IF src = <<>> THEN [ok |-> FALSE, v |-> U64Zero]
    ELSE IF Head(src) \in {43, 45} /\ Tail(src) = <<>> THEN [ok |-> FALSE, v |-> U64Zero]
    ELSE IF Head(src) = 43 THEN ParseDigits(Tail(src), U64Zero)
    ELSE ParseDigits(src, U64Zero)

\* pos + 1 on u64: with overflow checks (debug builds) an overflow panics,
\* without them (release builds) it wraps
AddOne(v, overflow_checks) ==
    LET r == MulAddLimbs(v, 1, 1)
    IN  IF r.carry > 0 /\ overflow_checks THEN [panic |-> TRUE, v |-> U64Zero]
        ELSE [panic |-> FALSE, v |-> r.limbs]

\* u64's Display: the decimal digits of a model-sized natural number
RECURSIVE DecimalText(_)
DecimalText(n) ==
    IF n < 10 THEN <<48 + n>> ELSE DecimalText(n \div 10) \o <<48 + (n % 10)>>

----------------------------------------------------------------------------
(* http::Response, header values, status codes *)

\* HeaderValue::to_str: only visible ASCII (and tab) renders as a string
to_str(hv) ==
    IF \A i \in 1..Len(hv) : (hv[i] >= 32 /\ hv[i] < 127) \/ hv[i] = 9
    THEN [ok |-> TRUE, s |-> hv]
    ELSE [ok |-> FALSE, s |-> <<>>]

\* str::starts_with
starts_with(s, pat) == Len(pat) <= Len(s) /\ SubSeq(s, 1, Len(pat)) = pat

\* is_success that also takes the 3xx codes for a success
is_success_below_400(status) == 400 > status /\ status >= 200

\* StatusCode::is_success: 200..=299
is_success(status) == 300 > status /\ status >= 200

\* "application/json"
ApplicationJson ==
        <<97, 112, 112, 108, 105, 99, 97, 116, 105, 111, 110, 47, 106, 115,
        111, 110>>

\* the header map of a response: each header the codec consumes, as an
\* Option of its (first) value
Headers(content_type, content_length, range, location) ==
    [content_type   |-> content_type,
     content_length |-> content_length,
     range          |-> range,
     location       |-> location]

\* Error::from(StatusCode)
HttpStatusError(status) == [kind |-> "HttpStatus", status |-> status]

Ok(v) == [ok |-> TRUE, value |-> v]

Err(e) == [ok |-> FALSE, err |-> e]

----------------------------------------------------------------------------
(* JSON bodies (serde_json::from_slice)                                    *)
(*                                                                         *)
(* A JSON value is a record tagged by its type.  The documents of the      *)
(* model are listed with the value each parses to; every other body of the *)
(* model (empty, truncated, plain text) is not JSON.                       *)

JNum(n) == [t |-> "num", num |-> n]

JStr(s) == [t |-> "str", str |-> s]

JArr(a) == [t |-> "arr", arr |-> a]

JObj(fields) == [t |-> "obj", obj |-> fields]

JFld(k, v) == [k |-> k, v |-> v]

\* {"code":404,"message":"not found","errors":[]}
DocNotFound ==
        <<123, 34, 99, 111, 100, 101, 34, 58, 52, 48, 52, 44, 34, 109, 101,
        115, 115, 97, 103, 101, 34, 58, 34, 110, 111, 116, 32, 102, 111, 117,
        110, 100, 34, 44, 34, 101, 114, 114, 111, 114, 115, 34, 58, 91, 93,
        125>>

\* {"code":403,"message":"denied","errors":[{"domain":"global","reason":"forbidden"}]}
DocForbidden ==
        <<123, 34, 99, 111, 100, 101, 34, 58, 52, 48, 51, 44, 34, 109, 101,
        115, 115, 97, 103, 101, 34, 58, 34, 100, 101, 110, 105, 101, 100, 34,
        44, 34, 101, 114, 114, 111, 114, 115, 34, 58, 91, 123, 34, 100, 111,
        109, 97, 105, 110, 34, 58, 34, 103, 108, 111, 98, 97, 108, 34, 44, 34,
        114, 101, 97, 115, 111, 110, 34, 58, 34, 102, 111, 114, 98, 105, 100,
        100, 101, 110, 34, 125, 93, 125>>

\* {"code":404,"message":"not found"}
DocNoErrors ==
        <<123, 34, 99, 111, 100, 101, 34, 58, 52, 48, 52, 44, 34, 109, 101,
        115, 115, 97, 103, 101, 34, 58, 34, 110, 111, 116, 32, 102, 111, 117,
        110, 100, 34, 125>>

\* {"code":70000,"message":"big","errors":[]}
DocBigCode ==
        <<123, 34, 99, 111, 100, 101, 34, 58, 55, 48, 48, 48, 48, 44, 34, 109,
        101, 115, 115, 97, 103, 101, 34, 58, 34, 98, 105, 103, 34, 44, 34,
        101, 114, 114, 111, 114, 115, 34, 58, 91, 93, 125>>

\* {"name":"n","contentType":"text/plain"}
DocMetadata ==
        <<123, 34, 110, 97, 109, 101, 34, 58, 34, 110, 34, 44, 34, 99, 111,
        110, 116, 101, 110, 116, 84, 121, 112, 101, 34, 58, 34, 116, 101, 120,
        116, 47, 112, 108, 97, 105, 110, 34, 125>>

\* {"name":7}
DocBadMetadata ==
        <<123, 34, 110, 97, 109, 101, 34, 58, 55, 125>>

\* oops
DocText ==
        <<111, 111, 112, 115>>

\* serde_json's parse of the bytes into a value (strings as their bytes)
JsonValueOf(bytes) ==
    CASE bytes = DocNotFound ->
           Ok(JObj(<<JFld("code", JNum(404)), JFld("message", JStr(<<110, 111, 116, 32, 102, 111, 117, 110, 100>>)),
                     JFld("errors", JArr(<<>>))>>))
      [] bytes = DocForbidden ->
           Ok(JObj(<<JFld("code", JNum(403)), JFld("message", JStr(<<100, 101, 110, 105, 101, 100>>)),
                     JFld("errors",
                          JArr(<<JObj(<<JFld("domain", JStr(<<103, 108, 111, 98, 97, 108>>)),
                                        JFld("reason", JStr(<<102, 111, 114, 98, 105, 100, 100, 101, 110>>))>>)>>))>>))
      [] bytes = DocNoErrors ->
           Ok(JObj(<<JFld("code", JNum(404)), JFld("message", JStr(<<110, 111, 116, 32, 102, 111, 117, 110, 100>>))>>))
      [] bytes = DocBigCode ->
           Ok(JObj(<<JFld("code", JNum(70000)), JFld("message", JStr(<<98, 105, 103>>)),
                     JFld("errors", JArr(<<>>))>>))
      [] bytes = DocMetadata ->
           Ok(JObj(<<JFld("name", JStr(<<110>>)), JFld("contentType", JStr(<<116, 101, 120, 116, 47, 112, 108, 97, 105, 110>>))>>))
      [] bytes = DocBadMetadata ->
           Ok(JObj(<<JFld("name", JNum(7))>>))
      [] OTHER -> Err([kind |-> "Json"])

\* the value of field k of an object's field list, as an Option
RECURSIVE GetField(_, _)
GetField(fields, k) ==
    IF fields = <<>> THEN None
    ELSE IF Head(fields).k = k THEN Some(Head(fields).v)
    ELSE GetField(Tail(fields), k)

\* a required field of type t
HasField(fields, k, t) == IsSome(GetField(fields, k)) /\ GetField(fields, k)[1].t = t

\* an Option<String> field: missing, null or a string
OptString(fields, k) ==
    IF ~IsSome(GetField(fields, k)) \/ GetField(fields, k)[1].t = "null" THEN [ok |-> TRUE, v |-> None]
    ELSE IF GetField(fields, k)[1].t = "str" THEN [ok |-> TRUE, v |-> Some(GetField(fields, k)[1].str)]
    ELSE [ok |-> FALSE, v |-> None]

\* Deserialize for ApiErrorInner {domain, reason, message: Option<String>}
IsApiErrorInner(v) ==
    /\ v.t = "obj"
    /\ OptString(v.obj, "domain").ok
    /\ OptString(v.obj, "reason").ok
    /\ OptString(v.obj, "message").ok

ApiErrorInnerOf(v) ==
    [domain  |-> OptString(v.obj, "domain").v,
     reason  |-> OptString(v.obj, "reason").v,
     message |-> OptString(v.obj, "message").v]

\* serde_json::from_slice::<ApiError>: code: u16, message: String and
\* errors: Vec<ApiErrorInner> are all required
ParseApiError(bytes) ==
    LET j == JsonValueOf(bytes)
    IN  IF ~j.ok THEN Err([kind |-> "Json"])
        ELSE IF /\ j.value.t = "obj"
                /\ HasField(j.value.obj, "code", "num")
                /\ GetField(j.value.obj, "code")[1].num \in 0..65535
                /\ HasField(j.value.obj, "message", "str")
                /\ HasField(j.value.obj, "errors", "arr")
                /\ \A i \in 1..Len(GetField(j.value.obj, "errors")[1].arr) :
                       IsApiErrorInner(GetField(j.value.obj, "errors")[1].arr[i])
        THEN Ok([code    |-> GetField(j.value.obj, "code")[1].num,
                 message |-> GetField(j.value.obj, "message")[1].str,
                 errors  |-> [i \in 1..Len(GetField(j.value.obj, "errors")[1].arr) |->
                                ApiErrorInnerOf(GetField(j.value.obj, "errors")[1].arr[i])]])
        ELSE Err([kind |-> "Json"])

\* serde_json::from_slice::<Metadata>: every field is optional; of the
\* fields the documents of the model use, name and contentType are strings
ParseMetadata(bytes) ==
    LET j == JsonValueOf(bytes)
    IN  IF ~j.ok THEN Err([kind |-> "Json"])
        ELSE IF /\ j.value.t = "obj"
                /\ OptString(j.value.obj, "name").ok
                /\ OptString(j.value.obj, "contentType").ok
        THEN Ok([name         |-> OptString(j.value.obj, "name").v,
                 content_type |-> OptString(j.value.obj, "contentType").v])
        ELSE Err([kind |-> "Json"])

----------------------------------------------------------------------------
(* The response types and their TryFrom<http::Response<B>> constructors *)

\* the response types of the model
DefaultResponseTypes == {"DownloadObjectResponse", "DeleteObjectResponse"}

\* DownloadObjectResponse::try_from: keeps the body, whatever it is
DownloadObjectResponse_try_from(resp) ==
    Ok([type |-> "DownloadObjectResponse", buffer |-> resp.body])

\* a constructor that takes every response given to it for a deletion
DeleteObjectResponse_try_from_any_status(resp) ==
    Ok([type |-> "DeleteObjectResponse"])

\* DeleteObjectResponse::try_from: 204 No Content only
DeleteObjectResponse_try_from(resp) ==
    IF resp.status = 204
    THEN Ok([type |-> "DeleteObjectResponse"])
    ELSE Err(HttpStatusError(resp.status))

\* range.split('-').last(): the text after the last '-' (all of it without one)
RECURSIVE LastSplit(_, _)
LastSplit(s, sep) ==
    IF s = <<>> THEN <<>>
    ELSE IF s[Len(s)] = sep THEN <<>>
    ELSE LastSplit(SubSeq(s, 1, Len(s) - 1), sep) \o <<s[Len(s)]>>

\* a panic: the thread unwinds, no value is returned
Panicked == Err([kind |-> "panic"])

\* ResumableInsertResponse::try_from: 308 reads the Range header, any other
\* status parses the body as Metadata
ResumableInsertResponse_try_from(resp, overflow_checks) ==
    IF resp.status = 308
    THEN LET range_val == resp.headers.range
         IN  IF ~IsSome(range_val) THEN Err([kind |-> "UnknownHeader", name |-> "range"])
             ELSE IF ~to_str(range_val[1]).ok
                  THEN Err([kind |-> "OpaqueHeaderValue", value |-> range_val[1]])
             ELSE LET pos == ParseU64(LastSplit(to_str(range_val[1]).s, 45))
                  IN  IF ~pos.ok
                      THEN Err([kind |-> "OpaqueHeaderValue", value |-> range_val[1]])
                      ELSE IF AddOne(pos.v, overflow_checks).panic THEN Panicked
                      ELSE Ok([type     |-> "ResumableInsertResponse",
                               metadata |-> [variant |-> "PartialSize",
                                             size    |-> AddOne(pos.v, overflow_checks).v]])
    ELSE LET metadata == ParseMetadata(resp.body)
         IN  IF ~metadata.ok THEN Err(metadata.err)
             ELSE Ok([type     |-> "ResumableInsertResponse",
                      metadata |-> [variant |-> "Complete", metadata |-> metadata.value]])

\* std::str::from_utf8 on the bodies of the model: ASCII is UTF-8, a byte
\* 0xF8..0xFF never occurs in UTF-8
from_utf8(bytes) ==
    IF \A i \in 1..Len(bytes) : bytes[i] < 128 THEN [ok |-> TRUE, s |-> bytes]
    ELSE [ok |-> FALSE, s |-> <<>>]

\* try_from_response that hands every 2xx status to try_from
ResumableInsertResponse_try_from_any_success(resp, overflow_checks) ==
    IF resp.status = 308 \/ is_success(resp.status)
    THEN ResumableInsertResponse_try_from(resp, overflow_checks)
    ELSE Err(HttpStatusError(resp.status))

\* try_from_response that wraps the body whatever the Content-Type says
ResumableInsertResponse_try_from_response_any_text(resp, overflow_checks) ==
    IF resp.status = 308 \/ resp.status = 200 \/ resp.status = 201
    THEN ResumableInsertResponse_try_from(resp, overflow_checks)
    ELSE IF /\ IsSome(resp.headers.content_type)
            /\ to_str(resp.headers.content_type[1]).ok
            /\ resp.body # <<>>
            /\ from_utf8(resp.body).ok
         THEN Err([kind    |-> "Api",
                   code    |-> resp.status,
                   message |-> from_utf8(resp.body).s,
                   errors  |-> <<>>])
         ELSE Err(HttpStatusError(resp.status))

\* ResumableInsertResponse::try_from_response
ResumableInsertResponse_try_from_response(resp, overflow_checks) ==
    IF resp.status = 308 \/ resp.status = 200 \/ resp.status = 201
    THEN ResumableInsertResponse_try_from(resp, overflow_checks)
    ELSE IF /\ IsSome(resp.headers.content_type)
            /\ to_str(resp.headers.content_type[1]).ok
            /\ starts_with(to_str(resp.headers.content_type[1]).s, TextPlain)
            /\ resp.body # <<>>
            /\ from_utf8(resp.body).ok
         THEN Err([kind    |-> "Api",
                   code    |-> resp.status,
                   message |-> from_utf8(resp.body).s,
                   errors  |-> <<>>])
         ELSE Err(HttpStatusError(resp.status))

\* try_from_response that also takes a 2xx for a confirmed cancellation
CancelResumableInsertResponse_try_from_response_or_success(resp) ==
    IF resp.status = 499 \/ is_success(resp.status)
    THEN Ok([type |-> "CancelResumableInsertResponse"])
    ELSE Err(HttpStatusError(resp.status))

\* CancelResumableInsertResponse::try_from_response
CancelResumableInsertResponse_try_from_response(resp) ==
    IF resp.status = 499
    THEN Ok([type |-> "CancelResumableInsertResponse"])
    ELSE Err(HttpStatusError(resp.status))

\* the first index at or after i where pat occurs in s, 0 when there is none
RECURSIVE find(_, _, _)
find(s, pat, i) ==
    IF i + Len(pat) - 1 > Len(s) THEN 0
    ELSE IF SubSeq(s, i, i + Len(pat) - 1) = pat THEN i
    ELSE find(s, pat, i + 1)

\* the characters http::Uri takes: visible ASCII but space " < > \ ^ `
IsUriChar(c) == c > 32 /\ c < 127 /\ c \notin {34, 60, 62, 92, 94, 96}

\* the end of the authority: the first '/', '?' or '#', or the end of s
RECURSIVE authority_end(_, _)
authority_end(s, i) ==
    IF i > Len(s) THEN Len(s)
    ELSE IF s[i] \in {47, 63, 35} THEN i - 1
    ELSE authority_end(s, i + 1)

\* an http::Uri: scheme, authority and path-and-query as they were written
Uri(scheme, authority, path_and_query) ==
    [scheme |-> scheme, authority |-> authority, path_and_query |-> path_and_query]

\* str::parse::<http::Uri>: the empty string and a string with a character
\* no URI holds are errors; a leading '/' is a path; otherwise scheme "://"
\* authority path, where a scheme needs an authority and a string without a
\* scheme is an authority alone
ParseUri(s) ==
    IF s = <<>> THEN [ok |-> FALSE, uri |-> <<>>]
    ELSE IF \E i \in 1..Len(s) : ~IsUriChar(s[i]) THEN [ok |-> FALSE, uri |-> <<>>]
    ELSE IF s[1] = 47 THEN [ok |-> TRUE, uri |-> Uri(None, None, s)]
    ELSE LET sep  == find(s, <<58, 47, 47>>, 1)
             rest == IF sep = 0 THEN s ELSE SubSeq(s, sep + 3, Len(s))
             aend == authority_end(rest, 1)
         IN  IF sep = 1 THEN [ok |-> FALSE, uri |-> <<>>]
             ELSE IF sep = 0
                  THEN IF aend # Len(s) THEN [ok |-> FALSE, uri |-> <<>>]
                       ELSE [ok |-> TRUE, uri |-> Uri(None, Some(s), <<>>)]
             ELSE IF aend = 0 THEN [ok |-> FALSE, uri |-> <<>>]
             ELSE [ok  |-> TRUE,
                   uri |-> Uri(Some(SubSeq(s, 1, sep - 1)),
                               Some(SubSeq(rest, 1, aend)),
                               SubSeq(rest, aend + 1, Len(rest)))]

\* what `?` makes of a failed parse: the error converted from
\* http::uri::InvalidUri
InvalidUriError == [kind |-> "InvalidUri"]

\* try_from that keeps the Location text without parsing it
InitResumableInsertResponse_try_from_unparsed(resp) ==
    IF ~IsSome(resp.headers.location)
    THEN Err([kind |-> "UnknownHeader", name |-> "location"])
    ELSE Ok([type |-> "InitResumableInsertResponse",
             resumable_session |-> Uri(None, None, resp.headers.location[1])])

\* InitResumableInsertResponse::try_from: the session URI is the Location
\* header
InitResumableInsertResponse_try_from(resp) ==
    LET session_uri == resp.headers.location
    IN  IF ~IsSome(session_uri)
        THEN Err([kind |-> "UnknownHeader", name |-> "location"])
        ELSE IF ~to_str(session_uri[1]).ok
             THEN Err([kind |-> "OpaqueHeaderValue", value |-> session_uri[1]])
        ELSE IF ~ParseUri(to_str(session_uri[1]).s).ok THEN Err(InvalidUriError)
        ELSE Ok([type |-> "InitResumableInsertResponse",
                 resumable_session |-> ParseUri(to_str(session_uri[1]).s).uri])


\* T::try_from(resp) for the types that keep the default try_from_parts
try_from(T, resp) ==
    CASE T = "DownloadObjectResponse"      -> DownloadObjectResponse_try_from(resp)
      [] T = "InitResumableInsertResponse" -> InitResumableInsertResponse_try_from(resp)
      [] OTHER                             -> DeleteObjectResponse_try_from(resp)

----------------------------------------------------------------------------
(* response.rs: ApiResponse::try_from_parts *)

\* the default method of the trait
default_try_from_parts(T, resp) ==
    IF is_success(resp.status)
    THEN try_from(T, resp)
    ELSE IF /\ IsSome(resp.headers.content_type)
            /\ to_str(resp.headers.content_type[1]).ok
            /\ starts_with(to_str(resp.headers.content_type[1]).s, ApplicationJson)
            /\ ParseApiError(resp.body).ok
         THEN Err([kind    |-> "Api",
                   code    |-> ParseApiError(resp.body).value.code,
                   message |-> ParseApiError(resp.body).value.message,
                   errors  |-> ParseApiError(resp.body).value.errors])
         ELSE Err(HttpStatusError(resp.status))

\* T::try_from_parts: the trait's default unless T overrides it
try_from_parts(T, resp, overflow_checks) ==
    CASE T = "ResumableInsertResponse" ->
           ResumableInsertResponse_try_from_response(resp, overflow_checks)
      [] T = "CancelResumableInsertResponse" ->
           CancelResumableInsertResponse_try_from_response(resp)
      [] OTHER -> default_try_from_parts(T, resp)

----------------------------------------------------------------------------
(* response.rs: Response<T>, the streaming decoder *)

\* util::get_content_length: the header as a usize, None when it is missing,
\* not a string or not a u64
get_content_length(headers) ==
    IF ~IsSome(headers.content_length) THEN None
    ELSE IF ~to_str(headers.content_length[1]).ok THEN None
    ELSE IF ~ParseU64(to_str(headers.content_length[1]).s).ok THEN None
    ELSE Some(AsUsize(ParseU64(to_str(headers.content_length[1]).s).v))

\* BytesMut::with_capacity(u).capacity(): the buffer is allocated with
\* exactly the capacity asked for; BytesMut::new() has capacity 0
with_capacity(u) == u

\* Response::new
Response_new(parts) ==
    [body        |-> <<>>,
     parts       |-> parts,
     content_len |-> IF IsSome(get_content_length(parts.headers))
                     THEN with_capacity(get_content_length(parts.headers)[1])
                     ELSE with_capacity(0)]

\* get_response that hands out the whole buffer, not split_to(content_len)
get_response_whole_buffer(self) ==
    IF Len(self.body) >= self.content_len
    THEN Ok([status  |-> self.parts.status,
             headers |-> self.parts.headers,
             body    |-> self.body])
    ELSE Err([kind |-> "InsufficientData"])

\* Response::get_response, which takes self by value
get_response(self) ==
    IF Len(self.body) >= self.content_len
    THEN Ok([status  |-> self.parts.status,
             headers |-> self.parts.headers,
             body    |-> SubSeq(self.body, 1, self.content_len)])
    ELSE Err([kind |-> "InsufficientData"])

\* Response::parse, which takes self by value
parse(T, self) ==
    IF get_response(self).ok
    THEN try_from_parts(T, get_response(self).value, TRUE)
    ELSE get_response(self)

\* io::Write for Response<T>
write(self, buf) == [self EXCEPT !.body = self.body \o buf]


----------------------------------------------------------------------------
(* Strings: ordering, sorting, hexadecimal and percent encoding *)

\* str's Ord: byte-wise lexicographic, a proper prefix first
LexLess(a, b) ==
    \/ Len(a) < Len(b) /\ SubSeq(b, 1, Len(a)) = a
    \/ \E i \in 1..Min(Len(a), Len(b)) :
         SubSeq(a, 1, i - 1) = SubSeq(b, 1, i - 1) /\ a[i] < b[i]

\* the Ord of a pair of strings: by the first, then by the second
PairLess(p, q) == LexLess(p[1], q[1]) \/ (p[1] = q[1] /\ LexLess(p[2], q[2]))

\* p put into the sorted sequence s, after the pairs that are not greater
RECURSIVE SortedInsert(_, _)
SortedInsert(s, p) ==
    IF s = <<>> THEN <<p>>
    ELSE IF PairLess(p, Head(s)) THEN <<p>> \o s
    ELSE <<Head(s)>> \o SortedInsert(Tail(s), p)

\* a sort that leaves the pairs as they are
unsorted(s) == s

\* Vec::sort on pairs of strings (stable)
RECURSIVE sort(_)
sort(s) ==
    IF s = <<>> THEN <<>>
    ELSE SortedInsert(sort(SubSeq(s, 1, Len(s) - 1)), s[Len(s)])

\* "0123456789abcdef"
CHARS == <<48, 49, 50, 51, 52, 53, 54, 55, 56, 57, 97, 98, 99, 100, 101, 102>>

\* the strings of ss, one after the other
RECURSIVE Flatten(_)
Flatten(ss) ==
    IF ss = <<>> THEN <<>>
    ELSE IF Len(ss) = 1 THEN ss[1]
    ELSE Flatten(SubSeq(ss, 1, Len(ss) \div 2))
         \o Flatten(SubSeq(ss, Len(ss) \div 2 + 1, Len(ss)))

\* util::to_hex: two lower-case digits a byte
to_hex(input) ==
    Flatten([i \in 1..Len(input) |->
               <<CHARS[(input[i] \div 16) + 1], CHARS[(input[i] % 16) + 1]>>])

\* "%XX" with upper-case digits, as percent_encoding writes a byte
PercentByte(b) ==
    <<37>> \o <<<<48, 49, 50, 51, 52, 53, 54, 55, 56, 57, 65, 66, 67, 68, 69, 70>>[(b \div 16) + 1],
                <<48, 49, 50, 51, 52, 53, 54, 55, 56, 57, 65, 66, 67, 68, 69, 70>>[(b % 16) + 1]>>

\* percent_encoding::CONTROLS and every byte that is not ASCII
CONTROLS == (0..31) \cup (127..255)

\* util::QUERY_ENCODE_SET
QUERY_ENCODE_SET == CONTROLS \cup {32, 34, 35, 60, 62}

\* util::PATH_ENCODE_SET
PATH_ENCODE_SET == QUERY_ENCODE_SET \cup {96, 63, 123, 125, 37, 47}

\* percent_encoding::percent_encode(input, set)
percent_encode(input, set) ==
    Flatten([i \in 1..Len(input) |->
               IF input[i] \in set THEN PercentByte(input[i]) ELSE <<input[i]>>])

\* the bytes application/x-www-form-urlencoded leaves as they are:
\* * - . _ 0-9 A-Z a-z
IsFormSafe(b) ==
    b \in {42, 45, 46, 95} \cup (48..57) \cup (65..90) \cup (97..122)

\* form_urlencoded::byte_serialize: a space is '+', any other unsafe byte "%XX"
byte_serialize(input) ==
    Flatten([i \in 1..Len(input) |->
               IF IsFormSafe(input[i]) THEN <<input[i]>>
               ELSE IF input[i] = 32 THEN <<43>>
               ELSE PercentByte(input[i])])

\* str::to_lowercase on ASCII
to_lowercase(s) == [i \in 1..Len(s) |-> IF s[i] \in 65..90 THEN s[i] + 32 ELSE s[i]]

\* the decimal text of n in at least `width` digits: format!("{n:0width}")
RECURSIVE ZeroPad(_, _)
ZeroPad(n, width) ==
    IF n < 10 /\ width <= 1 THEN <<48 + n>>
    ELSE ZeroPad(n \div 10, width - 1) \o <<48 + (n % 10)>>


----------------------------------------------------------------------------
(* signing.rs: the capabilities generate is given *)

\* DigestCalulator::digest of the model's digester: a 2-byte stand-in for
\* SHA-256 (the bytes of data[lo..hi], each weighted by its position, summed
\* modulo 65521)
RECURSIVE DigestSum(_, _, _)
DigestSum(data, lo, hi) ==
    IF lo > hi THEN 0
    ELSE IF lo = hi THEN (((lo % 251) + 1) * (data[lo] + 1)) % 65521
    ELSE (DigestSum(data, lo, (lo + hi) \div 2)
          + DigestSum(data, (lo + hi) \div 2 + 1, hi)) % 65521

digest(data) ==
    LET h == DigestSum(data, 1, Len(data)) IN <<h \div 256, h % 256>>

\* Signer::sign of the model's signer: it rejects an empty key, and its
\* signature is a function of the key and the data
sign(key, data) ==
    IF key = <<>> THEN Err([kind |-> "SigningError"])
    ELSE Ok(digest(key \o data) \o digest(data \o key))

\* one invocation of a capability, with the data it was given
Invocation(cap, data) == [cap |-> cap, data |-> data]

----------------------------------------------------------------------------
(* signed_url.rs: UrlSigner::generate *)

\* const SEVEN_DAYS
SEVEN_DAYS == 7 * 24 * 60 * 60

\* std::time::Duration and Duration::as_secs: the whole seconds
Duration(secs, nanos) == [secs |-> secs, nanos |-> nanos]

as_secs(duration) == duration.secs

\* "storage.googleapis.com"
StorageHost == <<115, 116, 111, 114, 97, 103, 101, 46, 103, 111, 111, 103, 108, 101,
        97, 112, 105, 115, 46, 99, 111, 109>>

\* http::header::HOST
HOST == <<104, 111, 115, 116>>

\* url::Url, the parts generate touches: the path and the query
Url_parse_storage == [path |-> <<47>>, query |-> None]

\* Url::set_path: the path, with what a path cannot hold percent-encoded
set_path(signed_url, path) ==
    [signed_url EXCEPT !.path = percent_encode(path, QUERY_ENCODE_SET \cup {63, 96, 123, 125})]

\* query_pairs_mut().append_pair(key, value)
append_pair(signed_url, key, value) ==
    [signed_url EXCEPT !.query =
        Some((IF signed_url.query = None \/ signed_url.query = Some(<<>>)
              THEN <<>> ELSE signed_url.query[1] \o <<38>>)
             \o byte_serialize(key) \o <<61>> \o byte_serialize(value))]

\* append_pair for each pair of params, in order
RECURSIVE append_pairs(_, _)
append_pairs(signed_url, params) ==
    IF params = <<>> THEN signed_url
    ELSE append_pairs(append_pair(signed_url, Head(params)[1], Head(params)[2]), Tail(params))

\* Url::as_str
as_str(signed_url) ==
    <<104, 116, 116, 112, 115, 58, 47, 47>> \o StorageHost \o signed_url.path
    \o (IF signed_url.query = None THEN <<>> ELSE <<63>> \o signed_url.query[1])

\* an insert that keeps the values a key already has
insert_unless_present(headers, key, value) ==
    IF \E i \in 1..Len(headers) : headers[i].key = key
    THEN headers
    ELSE Append(headers, [key |-> key, vals |-> <<value>>])

\* HeaderMap::insert: the value replaces every value the key had
insert(headers, key, value) ==
    IF \E i \in 1..Len(headers) : headers[i].key = key
    THEN [i \in 1..Len(headers) |->
            IF headers[i].key = key THEN [key |-> key, vals |-> <<value>>] ELSE headers[i]]
    ELSE Append(headers, [key |-> key, vals |-> <<value>>])

\* the strings of s joined by the character sep
RECURSIVE join(_, _)
join(s, sep) ==
    IF s = <<>> THEN <<>>
    ELSE IF Len(s) = 1 THEN s[1]
    ELSE s[1] \o <<sep>> \o join(Tail(s), sep)

\* every value of every header, in the order the loop reads them
RECURSIVE all_values(_)
all_values(headers) ==
    IF headers = <<>> THEN <<>> ELSE Head(headers).vals \o all_values(Tail(headers))

\* pairs whose values are sorted before they are joined
canonical_pairs_sorted_values(headers) ==
    sort([i \in 1..Len(headers) |->
            <<to_lowercase(headers[i].key),
              join([k \in 1..Len(headers[i].vals) |->
                       sort([j \in 1..Len(headers[i].vals) |->
                               <<headers[i].vals[j], <<>>>>])[k][1]], 44)>>])

\* the (lower-case name, comma-joined values) pairs, sorted
canonical_pairs(headers) ==
    sort([i \in 1..Len(headers) |->
            <<to_lowercase(headers[i].key), join(headers[i].vals, 44)>>])

\* the signed header names joined by ';'
signed_headers_of(hdrs) == join([i \in 1..Len(hdrs) |-> hdrs[i][1]], 59)

\* "name:value\n" for each header
RECURSIVE canonical_headers_of(_)
canonical_headers_of(hdrs) ==
    IF hdrs = <<>> THEN <<>>
    ELSE Head(hdrs)[1] \o <<58>> \o Head(hdrs)[2] \o <<10>> \o canonical_headers_of(Tail(hdrs))

\* the timestamp without its zero padding
request_timestamp_unpadded(timestamp) ==
    DecimalText(timestamp.year) \o DecimalText(timestamp.month) \o DecimalText(timestamp.day)
    \o <<84>> \o DecimalText(timestamp.hour) \o DecimalText(timestamp.minute)
    \o DecimalText(timestamp.second) \o <<90>>

\* YYYYMMDD'T'HHMMSS'Z'
request_timestamp_of(timestamp) ==
    ZeroPad(timestamp.year, 4) \o ZeroPad(timestamp.month, 2) \o ZeroPad(timestamp.day, 2)
    \o <<84>> \o ZeroPad(timestamp.hour, 2) \o ZeroPad(timestamp.minute, 2)
    \o ZeroPad(timestamp.second, 2) \o <<90>>

\* [DATE]/[LOCATION]/storage/goog4_request
credential_scope_of(request_timestamp, region) ==
    SubSeq(request_timestamp, 1, 8) \o <<47>> \o region \o <<47, 115, 116, 111, 114, 97, 103, 101, 47, 103, 111, 111, 103, 52,
        95, 114, 101, 113, 117, 101, 115, 116>>


\* "GOOG4-RSA-SHA256"
GOOG4_RSA_SHA256 == <<71, 79, 79, 71, 52, 45, 82, 83, 65, 45, 83, 72, 65, 50, 53, 54>>

\* the five signing parameters
signing_params(credential_param, request_timestamp, expiration, signed_headers) ==
    << <<<<88, 45, 71, 111, 111, 103, 45, 65, 108, 103, 111, 114, 105, 116,
        104, 109>>, GOOG4_RSA_SHA256>>,
       <<<<88, 45, 71, 111, 111, 103, 45, 67, 114, 101, 100, 101, 110, 116,
        105, 97, 108>>, credential_param>>,
       <<<<88, 45, 71, 111, 111, 103, 45, 68, 97, 116, 101>>, request_timestamp>>,
       <<<<88, 45, 71, 111, 111, 103, 45, 69, 120, 112, 105, 114, 101, 115>>, expiration>>,
       <<<<88, 45, 71, 111, 111, 103, 45, 83, 105, 103, 110, 101, 100, 72, 101,
        97, 100, 101, 114, 115>>, signed_headers>> >>

\* the canonical request
canonical_request_of(method, resource_path, canonical_query, canonical_headers, signed_headers) ==
    method \o <<10>> \o resource_path \o <<10>> \o canonical_query \o <<10>>
    \o canonical_headers \o <<10>> \o signed_headers \o <<10>> \o <<85, 78, 83, 73, 71, 78, 69, 68, 45, 80, 65, 89, 76, 79, 65, 68>>

\* the string to sign
string_to_sign_of(request_timestamp, credential_scope, digest_str) ==
    GOOG4_RSA_SHA256 \o <<10>> \o request_timestamp \o <<10>> \o credential_scope
    \o <<10>> \o digest_str

\* generate, from the headers on: the duration has passed the check
generate_signed(key_provider, id, optional, now) ==
    LET signed_url0   == set_path(Url_parse_storage,
                                  <<47>> \o percent_encode(id.bucket, PATH_ENCODE_SET)
                                  \o <<47>> \o percent_encode(id.object, PATH_ENCODE_SET))
        resource_path == <<47>> \o percent_encode(id.bucket, PATH_ENCODE_SET)
                         \o <<47>> \o percent_encode(id.object, PATH_ENCODE_SET)
        headers       == insert(optional.headers, HOST, StorageHost)
        opaque        == SelectSeq(all_values(headers), LAMBDA v : ~to_str(v).ok)
        hdrs          == canonical_pairs(headers)
        signed_headers    == signed_headers_of(hdrs)
        request_timestamp == request_timestamp_of(now)
        credential_scope  == credential_scope_of(request_timestamp, optional.region)
        credential_param  == key_provider.authorizer \o <<47>> \o credential_scope
        expiration        == DecimalText(as_secs(optional.duration))
        query_params      == sort(optional.query_params
                                  \o signing_params(credential_param, request_timestamp,
                                                    expiration, signed_headers))
        signed_url1       == append_pairs([signed_url0 EXCEPT !.query = Some(<<>>)],
                                          query_params)
        canonical_query   == signed_url1.query[1]
        canonical_request == canonical_request_of(optional.method, resource_path,
                                                  canonical_query,
                                                  canonical_headers_of(hdrs), signed_headers)
        digest_str        == to_hex(digest(canonical_request))
        string_to_sign    == string_to_sign_of(request_timestamp, credential_scope, digest_str)
        signature         == sign(key_provider.key, string_to_sign)
        invoked           == << Invocation("authorizer", <<>>),
                                Invocation("digest", canonical_request),
                                Invocation("key", <<>>),
                                Invocation("sign", string_to_sign) >>
    IN  IF opaque # <<>>
        THEN [res   |-> Err([kind |-> "OpaqueHeaderValue", value |-> opaque[1]]),
              calls |-> <<>>]
        ELSE IF ~signature.ok
        THEN [res |-> Err(signature.err), calls |-> invoked]
        ELSE [res   |-> Ok(append_pair(signed_url1, <<88, 45, 71, 111, 111, 103, 45, 83, 105, 103, 110, 97, 116, 117, 114,
        101>>,
                                       to_hex(signature.value))),
              calls |-> invoked]

\* generate without the check of the duration
generate_unchecked(key_provider, id, optional, now) ==
    generate_signed(key_provider, id, optional, now)

\* UrlSigner::generate, called when the clock reads `now`: the result and
\* the capabilities invoked on the way
generate(key_provider, id, optional, now) ==
    IF as_secs(optional.duration) > SEVEN_DAYS
    THEN [res   |-> Err([kind      |-> "TooLongExpiration",
                         requested |-> as_secs(optional.duration),
                         max       |-> SEVEN_DAYS]),
          calls |-> <<>>]
    ELSE generate_signed(key_provider, id, optional, now)


----------------------------------------------------------------------------
(* types.rs: BucketName and ObjectName                                    *)
(*                                                                         *)
(* A str is the sequence of its chars, each a Unicode code point.          *)

\* char::len_utf8
len_utf8(c) == IF c < 128 THEN 1 ELSE IF c < 2048 THEN 2 ELSE IF c < 65536 THEN 3 ELSE 4

\* the bytes of the chars lo..hi of text
RECURSIVE BytesBetween(_, _, _)
BytesBetween(text, lo, hi) ==
    IF lo > hi THEN 0
    ELSE IF lo = hi THEN len_utf8(text[lo])
    ELSE BytesBetween(text, lo, (lo + hi) \div 2)
         + BytesBetween(text, (lo + hi) \div 2 + 1, hi)

\* str::len: the length in bytes of the UTF-8 encoding
str_len(text) == BytesBetween(text, 1, Len(text))

\* str::contains
contains(text, pat) == \E i \in 1..(Len(text) - Len(pat) + 1) : SubSeq(text, i, i + Len(pat) - 1) = pat

\* "goog", "google", "g00gle"
Goog == <<103, 111, 111, 103>>

Google == <<103, 111, 111, 103, 108, 101>>

G00gle == <<103, 48, 48, 103, 108, 101>>

\* the body of the loop of BucketName::validate: TRUE when it returns the
\* error for the char c at index i (from 0)
BucketLoopRejects(i, c, last) ==
    IF c \in 65..90 THEN TRUE
    ELSE IF c \in (97..122) \cup (48..57) THEN FALSE
    ELSE IF c \in {45, 95} THEN i = 0 \/ i = last
    ELSE TRUE

\* a validation that takes no '_' at all
BucketName_validate_no_underscore(text) ==
    IF \E k \in 1..Len(text) : text[k] = 95
    THEN Err([kind |-> "InvalidCharacter",
              index |-> (CHOOSE k \in 1..Len(text) : text[k] = 95) - 1, char |-> 95])
    ELSE Ok(<<>>)

\* BucketName::validate
BucketName_validate(text) ==
    LET count == Len(text)
        last  == count - 1
        stops == {i \in 0..last : BucketLoopRejects(i, text[i + 1], last)}
    IN  IF ~(count \in 3..63)
        THEN Err([kind |-> "InvalidCharacterCount", len |-> count, min |-> 3, max |-> 63])
        ELSE IF stops # {}
        THEN LET i == CHOOSE s \in stops : \A t \in stops : s <= t
             IN  Err([kind |-> "InvalidCharacter", index |-> i, char |-> text[i + 1]])
        ELSE IF starts_with(text, Goog)
        THEN Err([kind |-> "InvalidPrefix", prefix |-> "goog"])
        ELSE IF contains(text, Google) \/ contains(text, G00gle)
        THEN Err([kind |-> "InvalidSequence", sequence |-> "google"])
        ELSE Ok(<<>>)

\* ".well-known/acme-challenge"
AcmeChallenge == <<46, 119, 101, 108, 108, 45, 107, 110, 111, 119, 110, 47, 97, 99,
        109, 101, 45, 99, 104, 97, 108, 108, 101, 110, 103, 101>>

\* the match of the loop of ObjectName::validate: TRUE for the chars it
\* returns the error for
ObjectLoopRejects(c) ==
    \/ c \in {13, 10}
    \/ c \in {35, 91, 93, 42, 63}
    \/ c \in (127..132) \cup (134..159)

\* a validation that takes any leading '.' for the forbidden name "."
ObjectName_validate_any_dot(text) ==
    IF text = <<>> \/ str_len(text) > 1024
    THEN Err([kind |-> "InvalidLength", min |-> 1, max |-> 1024, len |-> str_len(text)])
    ELSE IF text[1] = 46
    THEN Err([kind |-> "InvalidPrefix", prefix |-> "."])
    ELSE Ok(<<>>)

\* ObjectName::validate
ObjectName_validate(text) ==
    LET stops == {i \in 0..(Len(text) - 1) : ObjectLoopRejects(text[i + 1])}
    IN  IF text = <<>> \/ str_len(text) > 1024
        THEN Err([kind |-> "InvalidLength", min |-> 1, max |-> 1024, len |-> str_len(text)])
        ELSE IF text = <<46>> \/ text = <<46, 46, 46>>
        THEN Err([kind |-> "InvalidPrefix", prefix |-> "."])
        ELSE IF stops # {}
        THEN LET i == CHOOSE s \in stops : \A t \in stops : s <= t
             IN  Err([kind |-> "InvalidCharacter", index |-> i, char |-> text[i + 1]])
        ELSE IF starts_with(text, AcmeChallenge)
        THEN Err([kind |-> "InvalidPrefix", prefix |-> ".well-known/acme-challenge"])
        ELSE Ok(<<>>)

\* TryFrom<&str> for BucketName and for ObjectName: the name is the string
\* as it was given
Name_try_from(kind, n) ==
    LET checked == IF kind = "BucketName" THEN BucketName_validate(n)
                   ELSE ObjectName_validate(n)
    IN  IF checked.ok THEN Ok([kind |-> kind, name |-> n]) ELSE checked

\* AsRef<str> for BucketName and for ObjectName
as_ref(validated) == validated.name


----------------------------------------------------------------------------
(* common.rs and insert.rs: the query parameters and Object::insert_simple *)

\* common::pretty_on, the skip_serializing_if of pretty_print
pretty_on(pretty_print) == pretty_print

\* a skip_serializing_if that leaves out a pretty_print of false
pretty_off(pretty_print) == ~pretty_print

\* StandardQueryParameters, and its Default
StandardQueryParameters(fields, pretty_print, quota_user, user_ip) ==
    [fields |-> fields, pretty_print |-> pretty_print, quota_user |-> quota_user,
     user_ip |-> user_ip]

StandardQueryParameters_default == StandardQueryParameters(None, FALSE, None, None)

\* Conditionals, and its Default
Conditionals(gen_match, gen_not_match, metagen_match, metagen_not_match) ==
    [if_generation_match |-> gen_match, if_generation_not_match |-> gen_not_match,
     if_metageneration_match |-> metagen_match,
     if_metageneration_not_match |-> metagen_not_match]

Conditionals_default == Conditionals(None, None, None, None)

\* InsertObjectOptional::default()
InsertObjectOptional_default ==
    [standard_params  |-> StandardQueryParameters_default,
     content_type     |-> None,
     content_encoding |-> None,
     conditionals     |-> Conditionals_default,
     kms_key_name     |-> None,
     predefined_acl   |-> None,
     projection       |-> None,
     user_project     |-> None]

\* i64's Display
I64Text(n) == IF n < 0 THEN <<45>> \o DecimalText(0 - n) ELSE DecimalText(n)

\* one serialized field: nothing when it is skipped
Field(skip, key, value) == IF skip THEN <<>> ELSE <<<<key, value>>>>

\* an Option field under skip_serializing_if = "Option::is_none"
OptField(key, opt) == Field(opt = None, key, IF opt = None THEN <<>> ELSE opt[1])

\* an Option<i64> field under skip_serializing_if = "Option::is_none"
OptI64Field(key, opt) == Field(opt = None, key, IF opt = None THEN <<>> ELSE I64Text(opt[1]))

\* #[derive(Serialize)] of InsertObjectOptional: the fields in the order of
\* their declaration, the flattened structs in place, the names in camelCase,
\* content_type skipped; skip_pretty is what the skip_serializing_if of
\* pretty_print answered
InsertObjectOptional_fields(query, skip_pretty) ==
    OptField(<<102, 105, 101, 108, 100, 115>>, query.standard_params.fields)
    \o Field(skip_pretty, <<112, 114, 101, 116, 116, 121, 80, 114, 105, 110, 116>>,
             IF query.standard_params.pretty_print THEN <<116, 114, 117, 101>> ELSE <<102, 97, 108, 115, 101>>)
    \o OptField(<<113, 117, 111, 116, 97, 85, 115, 101, 114>>, query.standard_params.quota_user)
    \o OptField(<<117, 115, 101, 114, 73, 112>>, query.standard_params.user_ip)
    \o OptField(<<99, 111, 110, 116, 101, 110, 116, 69, 110, 99, 111, 100, 105, 110,
        103>>, query.content_encoding)
    \o OptI64Field(<<105, 102, 71, 101, 110, 101, 114, 97, 116, 105, 111, 110, 77, 97,
        116, 99, 104>>, query.conditionals.if_generation_match)
    \o OptI64Field(<<105, 102, 71, 101, 110, 101, 114, 97, 116, 105, 111, 110, 78, 111,
        116, 77, 97, 116, 99, 104>>, query.conditionals.if_generation_not_match)
    \o OptI64Field(<<105, 102, 77, 101, 116, 97, 103, 101, 110, 101, 114, 97, 116, 105,
        111, 110, 77, 97, 116, 99, 104>>, query.conditionals.if_metageneration_match)
    \o OptI64Field(<<105, 102, 77, 101, 116, 97, 103, 101, 110, 101, 114, 97, 116, 105,
        111, 110, 78, 111, 116, 77, 97, 116, 99, 104>>,
                   query.conditionals.if_metageneration_not_match)
    \o OptField(<<107, 109, 115, 75, 101, 121, 78, 97, 109, 101>>, query.kms_key_name)
    \o OptField(<<112, 114, 101, 100, 101, 102, 105, 110, 101, 100, 65, 99, 108>>, query.predefined_acl)
    \o OptField(<<112, 114, 111, 106, 101, 99, 116, 105, 111, 110>>, query.projection)
    \o OptField(<<117, 115, 101, 114, 80, 114, 111, 106, 101, 99, 116>>, query.user_project)

\* serde_urlencoded::to_string: "key=value" joined with '&', keys and values
\* form-urlencoded
to_string(fields) ==
    join([i \in 1..Len(fields) |->
             byte_serialize(fields[i][1]) \o <<61>> \o byte_serialize(fields[i][2])], 38)

\* HeaderValue::from_str: a byte below 32 other than tab, or 127, is refused
HeaderValue_from_str(s) ==
    IF \A i \in 1..Len(s) : (s[i] >= 32 /\ s[i] # 127) \/ s[i] = 9
    THEN Ok(s) ELSE Err([kind |-> "Http"])

\* http::header::CONTENT_TYPE, CONTENT_LENGTH
CONTENT_TYPE == <<99, 111, 110, 116, 101, 110, 116, 45, 116, 121, 112, 101>>

CONTENT_LENGTH == <<99, 111, 110, 116, 101, 110, 116, 45, 108, 101, 110, 103, 116, 104>>

\* "https://www.googleapis.com/upload/storage/v1/b/"
UploadBase == <<104, 116, 116, 112, 115, 58, 47, 47, 119, 119, 119, 46, 103, 111,
        111, 103, 108, 101, 97, 112, 105, 115, 46, 99, 111, 109, 47, 117, 112,
        108, 111, 97, 100, 47, 115, 116, 111, 114, 97, 103, 101, 47, 118, 49,
        47, 98, 47>>

\* Option::unwrap_or_default
unwrap_or_default(optional) ==
    IF optional = None THEN InsertObjectOptional_default ELSE optional[1]

\* the request insert_simple builds from the options and their serialization
insert_simple_request(id, content, length, query, query_params) ==
    LET uri == UploadBase \o percent_encode(id.bucket, PATH_ENCODE_SET)
               \o <<47, 111, 63, 110, 97, 109, 101, 61>>
               \o percent_encode(id.object, QUERY_ENCODE_SET)
               \o <<38, 117, 112, 108, 111, 97, 100, 84, 121, 112, 101, 61, 109, 101, 100,
                     105, 97>>
        content_type == HeaderValue_from_str(
                            IF query.content_type = None THEN DefaultContentType
                            ELSE query.content_type[1])
        full == IF query_params # <<>> THEN uri \o <<38>> \o query_params ELSE uri
    IN  IF ~content_type.ok THEN content_type
        ELSE IF ~ParseUri(full).ok THEN Err([kind |-> "Http"])
        ELSE Ok([method  |-> "POST",
                 uri     |-> full,
                 headers |-> << <<CONTENT_TYPE, content_type.value>>,
                                <<CONTENT_LENGTH, DecimalText(length)>> >>,
                 body    |-> content])

\* insert_simple with a pretty_print of false left out of the query
insert_simple_terse(id, content, length, optional) ==
    insert_simple_request(id, content, length, unwrap_or_default(optional),
        to_string(InsertObjectOptional_fields(unwrap_or_default(optional),
            pretty_off(unwrap_or_default(optional).standard_params.pretty_print))))

\* Object::insert_simple
insert_simple(id, content, length, optional) ==
    insert_simple_request(id, content, length, unwrap_or_default(optional),
        to_string(InsertObjectOptional_fields(unwrap_or_default(optional),
            pretty_on(unwrap_or_default(optional).standard_params.pretty_print))))

----------------------------------------------------------------------------
(* The encoder driven by one caller *)

\* the variables of the components a specification leaves alone
IdleEncoder ==
    /\ args = <<>>
    /\ mp = <<>>
    /\ iface = "none"
    /\ out = <<>>
    /\ eosOut = None
    /\ ret = [end |-> "none", n |-> 0]
    /\ clen = None

IdleDecoder ==
    /\ rx = <<>>
    /\ dec = None
    /\ written = <<>>
    /\ outcome = [call |-> "none"]

IdleCall ==
    /\ response = <<>>
    /\ build = [overflow_checks |-> TRUE]
    /\ result = <<>>
    /\ pc = "idle"

\* no URL is being signed
IdleSigner ==
    /\ sig = <<>>
    /\ url = <<>>
    /\ calls = <<>>

\* no name is being validated
IdleNames ==
    /\ name = <<>>
    /\ valid = <<>>

\* no request is being built
IdleBuilder ==
    /\ insArgs = <<>>
    /\ built = None

\* no caller owns a codec object
IdlePool == pool = <<>>

Bodies == { SubSeq(BodyBytes, 1, k) : k \in 0..MaxBody }

BufSizes == (1..MaxBuf) \cup {BigBuf}

WrapArgs ==
    [metadata : Metadatas, data : Bodies, body_length : 0..MaxBodyLen, chunk : 1..MaxChunk]

\* the caller builds the encoder with insert_multipart when the metadata
\* names the object, and with Multipart::wrap itself otherwise
InitMultipart ==
    /\ args \in WrapArgs
    /\ iface \in {"read", "poll_read", "stream"}
    /\ LET body == NewBody(args.data, args.chunk)
           req  == insert_multipart(body, args.body_length, args.metadata)
       IN  IF req.ok
           THEN mp = req.body /\ clen = Some(req.content_length)
           ELSE mp = wrap(body, args.body_length, args.metadata) /\ clen = None
    /\ out = <<>>
    /\ eosOut = None
    /\ ret = [end |-> "new", n |-> 0]
    /\ IdleDecoder
    /\ ty = "none"
    /\ IdleCall
    /\ IdleSigner
    /\ IdleNames
    /\ IdleBuilder
    /\ IdlePool

Callable == ret.end \in {"new", "ok", "pending"}

\* the caller's bookkeeping after a call handed it `bytes`
Deliver(bytes) ==
    /\ out' = out \o bytes
    /\ eosOut' = IF eosOut = None /\ bytes = <<>> THEN Some(out) ELSE eosOut
    /\ ret' = [end |-> "ok", n |-> Len(bytes)]

\* one call of Multipart::read; a call that panics or never returns hands
\* nothing to the caller and ends the caller's use of the encoder
Read ==
    /\ iface = "read"
    /\ Callable
    /\ \E n \in BufSizes :
         LET r == read(mp, n)
         IN  /\ mp' = r.mp
             /\ IF r.end = "ok"
                THEN Deliver(r.bytes)
                ELSE /\ ret' = [end |-> r.end, n |-> 0]
                     /\ UNCHANGED <<out, eosOut>>
    /\ UNCHANGED <<args, iface, clen, decVars, ty, callVars, signVars, nameVars, insVars, pool>>

\* one call of poll_read whose inner poll (if any) is Ready
PollRead ==
    /\ iface = "poll_read"
    /\ Callable
    /\ \E n \in BufSizes :
         LET r == poll_read(mp, n)
         IN  /\ mp' = r.mp
             /\ IF r.end = "ok"
                THEN Deliver(r.bytes)
                ELSE /\ ret' = [end |-> r.end, n |-> 0]
                     /\ UNCHANGED <<out, eosOut>>
    /\ UNCHANGED <<args, iface, clen, decVars, ty, callVars, signVars, nameVars, insVars, pool>>

\* one call of poll_read in Body whose inner poll_read is Pending:
\* `other => return other`, nothing changes
PollPending ==
    /\ iface = "poll_read"
    /\ Callable
    /\ mp.cursor.part = "Body"
    /\ ret' = [end |-> "pending", n |-> 0]
    /\ UNCHANGED <<args, mp, iface, out, eosOut, clen, decVars, ty, callVars, signVars,
                   nameVars, insVars, pool>>

\* one call of poll_next; None is the stream's end
PollNext ==
    /\ iface = "stream"
    /\ Callable
    /\ LET r == poll_next(mp)
       IN  /\ mp' = r.mp
           /\ IF IsSome(r.item)
              THEN /\ out' = out \o r.item[1]
                   /\ ret' = [end |-> "ok", n |-> Len(r.item[1])]
                   /\ UNCHANGED eosOut
              ELSE /\ eosOut' = IF eosOut = None THEN Some(out) ELSE eosOut
                   /\ ret' = [end |-> "ok", n |-> 0]
                   /\ UNCHANGED out
    /\ UNCHANGED <<args, iface, clen, decVars, ty, callVars, signVars, nameVars, insVars, pool>>

Next == Read \/ PollRead \/ PollPending \/ PollNext

Init == InitMultipart

Spec == Init /\ [][Next]_vars

----------------------------------------------------------------------------
(* The decoder fed by one transport *)

\* the bodies a server sends
Payloads == {DocNotFound, DocText}

\* the lengths a Content-Length header declares for a payload
DeclaredLengths(payload) == (0..MaxContentLength) \cup {Len(payload)}

\* the transport got the status line and the headers and builds the decoder;
\* the Content-Length header is absent, not a number ("x"), or a number
InitResponse ==
    /\ \E payload \in Payloads, status \in {200, 404},
          content_type \in {None, Some(ApplicationJson)} :
         \/ \E content_length \in {None, Some(<<120>>)} :
              rx = [payload  |-> payload,
                    declared |-> None,
                    parts    |-> [status  |-> status,
                                  headers |-> Headers(content_type, content_length, None, None)]]
         \/ \E n \in DeclaredLengths(payload) :
              rx = [payload  |-> payload,
                    declared |-> Some(n),
                    parts    |-> [status  |-> status,
                                  headers |-> Headers(content_type, Some(DecimalText(n)),
                                                      None, None)]]
    /\ dec = Some(Response_new(rx.parts))
    /\ written = <<>>
    /\ outcome = [call |-> "none"]
    /\ ty = "DownloadObjectResponse"
    /\ IdleEncoder
    /\ IdleCall
    /\ IdleSigner
    /\ IdleNames
    /\ IdleBuilder
    /\ IdlePool

\* the transport writes the next bytes of the payload into the decoder
Write ==
    /\ IsSome(dec)
    /\ Len(written) < Len(rx.payload)
    /\ \E k \in (1..MaxWrite) \cup {Len(rx.payload) - Len(written)} :
         /\ Len(written) + k <= Len(rx.payload)
         /\ LET buf == SubSeq(rx.payload, Len(written) + 1, Len(written) + k)
            IN  /\ dec' = Some(write(dec[1], buf))
                /\ written' = written \o buf
    /\ UNCHANGED <<rx, outcome, ty, encVars, callVars, signVars, nameVars, insVars, pool>>

\* the caller calls get_response: the decoder is moved into the call
GetResponse ==
    /\ IsSome(dec)
    /\ outcome' = [call |-> "get_response", result |-> get_response(dec[1])]
    /\ dec' = None
    /\ UNCHANGED <<rx, written, ty, encVars, callVars, signVars, nameVars, insVars, pool>>

\* the caller calls parse: the decoder is moved into the call
Parse ==
    /\ IsSome(dec)
    /\ outcome' = [call |-> "parse", result |-> parse(ty, dec[1])]
    /\ dec' = None
    /\ UNCHANGED <<rx, written, ty, encVars, callVars, signVars, nameVars, insVars, pool>>

NextResponse == Write \/ GetResponse \/ Parse

SpecResponse == InitResponse /\ [][NextResponse]_vars

----------------------------------------------------------------------------
(* One call of T::try_from_parts *)

\* the status codes of the model
Statuses == {199, 200, 201, 204, 299, 300, 308, 404, 499, 500}

\* "application/json; charset=UTF-8"
ApplicationJsonUtf8 ==
        <<97, 112, 112, 108, 105, 99, 97, 116, 105, 111, 110, 47, 106, 115,
        111, 110, 59, 32, 99, 104, 97, 114, 115, 101, 116, 61, 85, 84, 70, 45,
        56>>

\* a header value that is no string (obs-text)
OpaqueValue == <<255>>

\* a response for a type that keeps the default try_from_parts
InitParts ==
    /\ ty \in DefaultResponseTypes
    /\ \E status \in Statuses,
          content_type \in {None, Some(ApplicationJson), Some(ApplicationJsonUtf8),
                            Some(TextPlain), Some(OpaqueValue)},
          body \in {DocNotFound, DocForbidden, DocNoErrors, DocBigCode, DocText, <<>>} :
         response = [status  |-> status,
                     headers |-> Headers(content_type, None, None, None),
                     body    |-> body]
    /\ build = [overflow_checks |-> TRUE]
    /\ result = <<>>
    /\ pc = "call"
    /\ IdleEncoder
    /\ IdleDecoder
    /\ IdleSigner
    /\ IdleNames
    /\ IdleBuilder
    /\ IdlePool

\* "bytes=0-"
BytesZeroTo ==
        <<98, 121, 116, 101, 115, 61, 48, 45>>

\* the texts that follow "bytes=0-" in the Range headers of the model:
\* 0, 1023, 65535, 65536, 4294967295, 2^64 - 2, 2^64 - 1, 2^64, nothing,
\* "abc", "12a", "+5", "5-9"
RangeEnds ==
    { <<48>>, <<49, 48, 50, 51>>, <<54, 53, 53, 51, 53>>, <<54, 53, 53, 51, 54>>,
        <<52, 50, 57, 52, 57, 54, 55, 50, 57, 53>>,
        <<49, 56, 52, 52, 54, 55, 52, 52, 48, 55, 51, 55, 48, 57, 53, 53, 49,
        54, 49, 52>>,
        <<49, 56, 52, 52, 54, 55, 52, 52, 48, 55, 51, 55, 48, 57, 53, 53, 49,
        54, 49, 53>>,
        <<49, 56, 52, 52, 54, 55, 52, 52, 48, 55, 51, 55, 48, 57, 53, 53, 49,
        54, 49, 54>>,
      <<>>, <<97, 98, 99>>, <<49, 50, 97>>, <<43, 53>>, <<53, 45, 57>> }

\* the Range headers of the model: none, one that is no string, a bare
\* number, and "bytes=0-" followed by each end
RangeHeaders ==
    {None, Some(OpaqueValue), Some(<<52, 50>>)} \cup { Some(BytesZeroTo \o e) : e \in RangeEnds }

\* "text/plain; charset=utf-8"
TextPlainUtf8 ==
        <<116, 101, 120, 116, 47, 112, 108, 97, 105, 110, 59, 32, 99, 104,
        97, 114, 115, 101, 116, 61, 117, 116, 102, 45, 56>>

\* a body that is no UTF-8 text
InvalidUtf8 == <<104, 255, 254>>

\* a response to a resumable append
InitResumable ==
    /\ ty = "ResumableInsertResponse"
    /\ \E status \in Statuses,
          content_type \in {None, Some(TextPlain), Some(TextPlainUtf8),
                            Some(ApplicationJson), Some(OpaqueValue)},
          range \in RangeHeaders,
          body \in {DocMetadata, DocBadMetadata, DocText, InvalidUtf8, <<>>} :
         response = [status  |-> status,
                     headers |-> Headers(content_type, None, range, None),
                     body    |-> body]
    /\ build \in [overflow_checks : BOOLEAN]
    /\ result = <<>>
    /\ pc = "call"
    /\ IdleEncoder
    /\ IdleDecoder
    /\ IdleSigner
    /\ IdleNames
    /\ IdleBuilder
    /\ IdlePool

\* the caller decodes the response
Decode ==
    /\ pc = "call"
    /\ result' = try_from_parts(ty, response, build.overflow_checks)
    /\ pc' = "done"
    /\ UNCHANGED <<ty, response, build, encVars, decVars, signVars, nameVars, insVars, pool>>

NextCall == Decode

SpecParts == InitParts /\ [][NextCall]_vars

SpecResumable == InitResumable /\ [][NextCall]_vars


\* a response to the cancellation of a resumable upload
InitCancel ==
    /\ ty = "CancelResumableInsertResponse"
    /\ \E status \in Statuses,
          content_type \in {None, Some(TextPlain), Some(ApplicationJson)},
          body \in {DocNotFound, DocMetadata, DocText, <<>>} :
         response = [status  |-> status,
                     headers |-> Headers(content_type, None, None, None),
                     body    |-> body]
    /\ build = [overflow_checks |-> TRUE]
    /\ result = <<>>
    /\ pc = "call"
    /\ IdleEncoder
    /\ IdleDecoder
    /\ IdleSigner
    /\ IdleNames
    /\ IdleBuilder
    /\ IdlePool

SpecCancel == InitCancel /\ [][NextCall]_vars

\* a session URI as the service returns it
SessionUri ==
        <<104, 116, 116, 112, 115, 58, 47, 47, 115, 116, 111, 114, 97, 103,
        101, 46, 103, 111, 111, 103, 108, 101, 97, 112, 105, 115, 46, 99, 111,
        109, 47, 117, 112, 108, 111, 97, 100, 47, 115, 116, 111, 114, 97, 103,
        101, 47, 118, 49, 47, 98, 47, 98, 117, 99, 107, 101, 116, 47, 111, 63,
        117, 112, 108, 111, 97, 100, 84, 121, 112, 101, 61, 114, 101, 115,
        117, 109, 97, 98, 108, 101, 38, 117, 112, 108, 111, 97, 100, 95, 105,
        100, 61, 120, 97, 50, 57, 56, 115, 100, 95, 115, 100, 108, 107, 106,
        50>>

\* "/upload?upload_id=1", a URI that is a path
PathUri ==
        <<47, 117, 112, 108, 111, 97, 100, 63, 117, 112, 108, 111, 97, 100,
        95, 105, 100, 61, 49>>

\* texts that are no URI: "", "a b", "https:///x" (a scheme without a host),
\* "host/x" (a path without a scheme)
NotUris ==
    { <<>>, <<97, 32, 98>>, <<104, 116, 116, 112, 115, 58, 47, 47, 47, 120>>,
      <<104, 111, 115, 116, 47, 120>> }

\* the Location headers of the model: none, one that is no string, the URIs
\* and the texts that are no URI
Locations ==
    {None, Some(OpaqueValue), Some(SessionUri), Some(PathUri)} \cup { Some(l) : l \in NotUris }

\* a response to the initiation of a resumable upload
InitSession ==
    /\ ty = "InitResumableInsertResponse"
    /\ \E status \in Statuses,
          content_type \in {None, Some(ApplicationJson)},
          location \in Locations,
          body \in {DocNotFound, DocText, <<>>} :
         response = [status  |-> status,
                     headers |-> Headers(content_type, None, None, location),
                     body    |-> body]
    /\ build = [overflow_checks |-> TRUE]
    /\ result = <<>>
    /\ pc = "call"
    /\ IdleEncoder
    /\ IdleDecoder
    /\ IdleSigner
    /\ IdleNames
    /\ IdleBuilder
    /\ IdlePool

SpecSession == InitSession /\ [][NextCall]_vars


----------------------------------------------------------------------------
(* UrlSigner::generate called on a running clock *)

\* how many times generate is called
MaxRuns == 2

\* the readings of the clock, in order
Clocks ==
    << [year |-> 2026, month |-> 1, day |-> 5, hour |-> 9, minute |-> 0, second |-> 7],
       [year |-> 2026, month |-> 11, day |-> 30, hour |-> 23, minute |-> 59, second |-> 59] >>

\* the durations asked for: none, an hour, seven days, seven days and a half
\* second, seven days and a second
Durations ==
    { Duration(0, 0), Duration(3600, 0), Duration(SEVEN_DAYS, 0),
      Duration(SEVEN_DAYS, 500000000), Duration(SEVEN_DAYS + 1, 0) }

\* the caller's headers: none; a Host of their own; a header with two values
\* and another header; two Host values and a header sorting after host; a
\* value that is no string
CallerHeaders ==
    { <<>>,
      << [key |-> HOST, vals |-> <<<<101, 118, 105, 108, 46, 101, 120, 97, 109, 112, 108, 101, 46, 99,
        111, 109>>>>] >>,
      << [key |-> <<120, 45, 103, 111, 111, 103, 45, 109, 101, 116, 97, 45, 97>>, vals |-> <<<<50>>, <<49>>>>],
         [key |-> <<99, 111, 110, 116, 101, 110, 116, 45, 116, 121, 112, 101>>, vals |-> <<TextPlain>>] >>,
      << [key |-> <<120, 45, 98>>, vals |-> <<<<118>>>>],
         [key |-> HOST, vals |-> <<<<97>>, <<98>>>>] >>,
      << [key |-> <<120, 45, 97>>, vals |-> <<OpaqueValue>>] >> }

\* the caller's query parameters: none; one sorting before the signing
\* parameters; two sorting after X-Goog-Signature, with characters that get
\* encoded; signing parameters of their own
CallerParams ==
    { <<>>,
      << <<<<103, 101, 110, 101, 114, 97, 116, 105, 111, 110>>, <<49>>>> >>,
      << <<<<120, 45, 97, 102, 116, 101, 114>>, <<118>>>>, <<<<90, 32, 122>>, <<97, 38, 98>>>> >>,
      << <<<<88, 45, 71, 111, 111, 103, 45, 83, 105, 103, 110, 97, 116, 117, 114,
        101>>, <<102, 97, 107, 101>>>>, <<<<88, 45, 71, 111, 111, 103, 45, 68, 97, 116, 101>>, <<48>>>> >> }

\* the key providers: a service account, and one whose key the signer rejects
KeyProviders ==
    { [authorizer |-> <<115, 97, 64, 112, 46, 105, 97, 109>>, key |-> <<1, 2, 3>>],
      [authorizer |-> <<104, 109>>, key |-> <<>>] }

\* what is signed for: a GET of b-1/o.txt in "auto", a PUT of
\* bkt/"dir/a b?.txt" in "us-east1"
Requests ==
    { [method |-> <<71, 69, 84>>, region |-> <<97, 117, 116, 111>>,
       id     |-> [bucket |-> <<98, 45, 49>>, object |-> <<111, 46, 116, 120, 116>>]],
      [method |-> <<80, 85, 84>>, region |-> <<117, 115, 45, 101, 97, 115, 116, 49>>,
       id     |-> [bucket |-> <<98, 107, 116>>,
                   object |-> <<100, 105, 114, 47, 97, 32, 98, 63, 46, 116, 120, 116>>]] }

\* SignedUrlOptional
SignedUrlOptional(method, duration, headers, region, query_params) ==
    [method |-> method, duration |-> duration, headers |-> headers, region |-> region,
     query_params |-> query_params]

\* a signer, what it is asked to sign, and a clock
InitSigner ==
    /\ \E key_provider \in KeyProviders,
          request \in Requests,
          duration \in Durations,
          headers \in CallerHeaders,
          query_params \in CallerParams :
         sig = [key_provider |-> key_provider,
                id           |-> request.id,
                optional     |-> SignedUrlOptional(request.method, duration, headers,
                                                   request.region, query_params),
                clock        |-> 1]
    /\ url = <<>>
    /\ calls = <<>>
    /\ ty = "none"
    /\ IdleEncoder
    /\ IdleDecoder
    /\ IdleCall
    /\ IdleNames
    /\ IdleBuilder
    /\ IdlePool

\* one call of generate
Generate ==
    /\ sig # <<>>
    /\ Len(url) < MaxRuns
    /\ LET g == generate(sig.key_provider, sig.id, sig.optional, Clocks[sig.clock])
       IN  /\ url' = Append(url, [clock |-> sig.clock, res |-> g.res, calls |-> g.calls])
           /\ calls' = calls \o g.calls
    /\ UNCHANGED <<sig, ty, encVars, decVars, callVars, nameVars, insVars, pool>>

\* the clock moves on
Tick ==
    /\ sig # <<>>
    /\ sig.clock < Len(Clocks)
    /\ sig' = [sig EXCEPT !.clock = sig.clock + 1]
    /\ UNCHANGED <<url, calls, ty, encVars, decVars, callVars, nameVars, insVars, pool>>

NextSigner == Generate \/ Tick

SpecSigner == InitSigner /\ [][NextSigner]_vars


----------------------------------------------------------------------------
(* Names validated, and validated again *)

\* the length of the names enumerated in full
MaxNameLen == 4

\* how many times a validated name is validated again
MaxRevalidations == 1

\* n times the char c
Repeat(c, n) == [i \in 1..n |-> c]

\* the bucket names tried: every string of 'a', '-', '_' and 'A' up to
\* MaxNameLen chars, the names of the tests of types.rs, names around the
\* "goog" and "google" rules, names of 63 and 64 chars, and names with a
\* space and with a char that is not ASCII
BucketTexts ==
    UNION { [1..n -> {97, 45, 95, 65}] : n \in 0..MaxNameLen }
    \cup { <<110, 111>>, <<117, 104, 79, 72>>, <<117, 104, 46, 111, 104>>, <<95, 117, 104, 111, 104>>, <<117, 104, 111, 104, 45>>, <<103, 111, 111, 103, 117, 104, 111, 104>>,
           <<117, 104, 111, 104, 103, 48, 48, 103, 108, 101, 117, 104, 111, 104>>, <<103, 111, 111, 103>>, <<103, 111, 111>>, <<97, 103, 111, 111, 103>>, <<103, 111, 111, 103, 108, 101>>,
           <<97, 103, 111, 111, 103, 108, 101>>, <<103, 48, 48, 103, 108, 101>>, <<97, 103, 48, 48, 103, 108, 101, 57>>, <<103, 111, 48, 103, 108, 101>>, <<97, 45, 98, 95, 99, 57>>,
           <<109, 121, 95, 98, 117, 99, 107, 101, 116, 45, 48, 49>>, <<97, 32, 98>>, <<97, 233, 98>>, <<233, 233>>,
           Repeat(97, 63), Repeat(97, 64) }

\* the object names tried: empty, the dot names, plain names, the ACME
\* prefix, the rejected chars alone and in pairs, chars next to the rejected
\* ranges, and names of 1024 bytes and more in one-byte and two-byte chars
ObjectTexts ==
    { <<>>, <<46>>, <<46, 46>>, <<46, 46, 46>>, <<46, 46, 46, 46>>, <<97>>, <<111, 46, 116, 120, 116>>, <<100, 105, 114, 47, 102, 105, 108, 101, 32, 110, 97, 109, 101>>,
      <<46, 119, 101, 108, 108, 45, 107, 110, 111, 119, 110, 47, 97, 99,
        109, 101, 45, 99, 104, 97, 108, 108, 101, 110, 103, 101>>, <<46, 119, 101, 108, 108, 45, 107, 110, 111, 119, 110, 47, 97, 99,
        109, 101, 45, 99, 104, 97, 108, 108, 101, 110, 103, 101, 47, 116, 111,
        107, 101, 110>>,
      <<46, 119, 101, 108, 108, 45, 107, 110, 111, 119, 110>>, <<97, 47, 46, 119, 101, 108, 108, 45, 107, 110, 111, 119, 110, 47, 97,
        99, 109, 101, 45, 99, 104, 97, 108, 108, 101, 110, 103, 101>>,
      <<97, 35, 98>>, <<97, 35, 49>>, <<91, 120, 93>>, <<97, 42, 63>>, <<63>>, <<97, 10, 98>>, <<97, 13, 10>>,
      <<126>>, <<127>>, <<97, 132>>, <<133>>, <<134, 97>>, <<159>>, <<160>>,
      <<97, 35, 98, 127, 63>>, <<233, 42>>, <<8364, 97>>,
      Repeat(97, 1024), Repeat(97, 1025), Repeat(233, 512), Repeat(233, 513) }

\* a string about to become a BucketName or an ObjectName
InitNames ==
    /\ name \in [kind : {"BucketName"}, text : BucketTexts]
                \cup [kind : {"ObjectName"}, text : ObjectTexts]
    /\ valid = <<>>
    /\ ty = "none"
    /\ IdleEncoder
    /\ IdleDecoder
    /\ IdleCall
    /\ IdleSigner
    /\ IdleBuilder
    /\ IdlePool

\* TryFrom<&str>: the string is validated
TryFromStr ==
    /\ name # <<>>
    /\ valid = <<>>
    /\ valid' = <<Name_try_from(name.kind, name.text)>>
    /\ UNCHANGED <<name, ty, encVars, decVars, callVars, signVars, insVars, pool>>

\* the string a validated name exposes is validated again
TryFromValidated ==
    /\ name # <<>>
    /\ valid # <<>>
    /\ Len(valid) <= MaxRevalidations
    /\ valid[Len(valid)].ok
    /\ valid' = Append(valid, Name_try_from(name.kind, as_ref(valid[Len(valid)].value)))
    /\ UNCHANGED <<name, ty, encVars, decVars, callVars, signVars, insVars, pool>>

NextNames == TryFromStr \/ TryFromValidated

SpecNames == InitNames /\ [][NextNames]_vars


----------------------------------------------------------------------------
(* One call of Object::insert_simple *)

\* the (bucket, object) pairs: those of the tests, and names with chars the
\* path and the query escape differently
ObjectIds ==
    { [bucket |-> <<98, 117, 99, 107, 101, 116>>, object |-> <<111, 98, 106, 101, 99, 116, 47, 119, 105, 116, 104, 47, 100, 101,
        101, 112, 47, 112, 97, 116, 104>>],
      [bucket |-> <<98, 117, 99, 107, 101, 116>>, object |-> <<106, 115, 111, 110>>],
      [bucket |-> <<109, 121, 32, 98, 117, 99, 107, 101, 116>>, object |-> <<97, 32, 98, 63, 99>>],
      [bucket |-> <<98, 47, 99>>, object |-> <<49, 48, 48, 37, 35, 49>>] }

\* the contents uploaded
Contents == { <<103, 114, 101, 97, 116, 32, 99, 111, 110, 116, 101, 110, 116>>, <<123, 34, 100, 97, 116, 97, 34, 58, 50, 51, 125>>, <<>> }

\* the lengths the caller declares
Lengths == {0, 11, 13}

\* the options: none, the defaults, those of the test insert_json_content,
\* pretty printing on, conditions with an ACL, a projection and a project,
\* and a content type that is no header value
InsertOptions ==
    { None,
      Some(InsertObjectOptional_default),
      Some([InsertObjectOptional_default EXCEPT
                !.content_type = Some(ApplicationJson),
                !.content_encoding = Some(<<105, 100, 101, 110, 116, 105, 116, 121>>)]),
      Some([InsertObjectOptional_default EXCEPT
                !.standard_params = StandardQueryParameters(None, TRUE, None, None)]),
      Some([InsertObjectOptional_default EXCEPT
                !.standard_params = StandardQueryParameters(Some(<<110, 97, 109, 101, 44, 115, 105, 122, 101>>), FALSE,
                                                            Some(<<117, 32, 49>>), None),
                !.conditionals = Conditionals(Some(0), None, Some(0 - 7), None),
                !.predefined_acl = Some(<<112, 117, 98, 108, 105, 99, 82, 101, 97, 100>>),
                !.projection = Some(<<110, 111, 65, 99, 108>>),
                !.user_project = Some(<<109, 121, 32, 112, 114, 111, 106>>)]),
      Some([InsertObjectOptional_default EXCEPT
                !.content_type = Some(<<116, 101, 120, 116, 10, 120>>)]) }

\* the arguments of one call
InitInsert ==
    /\ insArgs \in [id : ObjectIds, content : Contents, length : Lengths,
                    optional : InsertOptions]
    /\ built = None
    /\ pool = <<>>
    /\ ty = "none"
    /\ IdleEncoder
    /\ IdleDecoder
    /\ IdleCall
    /\ IdleSigner
    /\ IdleNames

\* Object::insert_simple(id, content, length, optional)
InsertSimple ==
    /\ insArgs # <<>>
    /\ built = None
    /\ built' = Some(insert_simple(insArgs.id, insArgs.content, insArgs.length,
                                   insArgs.optional))
    /\ UNCHANGED <<insArgs, pool, ty, encVars, decVars, callVars, signVars, nameVars>>

SpecInsert == InitInsert /\ [][InsertSimple]_vars


----------------------------------------------------------------------------
(* Several callers, each driving its own encoder and its own decoder *)

\* the callers
Callers == {"a", "b"}

\* the most calls a caller makes on its encoder
MaxPoolCalls == 3

\* the buffers the callers read into: a reader takes the payload in pieces
\* or at once, a poller takes each part at once
PoolBufSizes(op) == IF op = "read" THEN {64, BigBuf} ELSE {BigBuf}

\* what a caller wraps, and the interface it reads through
PoolEncoders ==
    { [metadata |-> [name |-> Some(<<110>>), content_type |-> Some(TextPlain)],
       data |-> <<97, 98>>, body_length |-> 2, chunk |-> 1, iface |-> "read"],
      [metadata |-> [name |-> Some(<<97, 34, 98>>), content_type |-> None],
       data |-> <<99>>, body_length |-> 1, chunk |-> 2, iface |-> "poll_read"] }

\* what a caller's transport receives
PoolResponses ==
    { [status |-> 200, payload |-> DocText], [status |-> 404, payload |-> DocNotFound] }

\* what a caller starts with: an upload to encode and a response to decode
PoolTasks ==
    { <<e, r>> \in PoolEncoders \X PoolResponses : (e.iface = "read") = (r.status = 200) }

\* Multipart::wrap and Response::new: the objects a caller owns, the calls it
\* has made on each and what they have handed to it
Owned(e, r) ==
    [wrapped  |-> e,
     received |-> r,
     mp       |-> wrap(NewBody(e.data, e.chunk), e.body_length, e.metadata),
     emitted  |-> <<>>,
     ends     |-> <<>>,
     encLog   |-> <<>>,
     dec      |-> Some(Response_new(
                     [status  |-> r.status,
                      headers |-> Headers(Some(ApplicationJson),
                                          Some(DecimalText(Len(r.payload))), None, None)])),
     decLog   |-> <<>>,
     parsed   |-> None]

\* read(&mut self, buf) or poll_read(self: Pin<&mut Self>, .., buf) on the
\* encoder of o, with a buffer of n bytes
EncoderCall(o, op, n) ==
    LET r == IF op = "read" THEN read(o.mp, n) ELSE poll_read(o.mp, n)
    IN  [o EXCEPT !.mp = r.mp,
                  !.emitted = o.emitted \o r.bytes,
                  !.ends = Append(o.ends, r.end),
                  !.encLog = Append(o.encLog, <<op, n>>)]

\* write(&mut self, buf) on the decoder of o
DecoderWrite(o, buf) ==
    [o EXCEPT !.dec = Some(write(o.dec[1], buf)), !.decLog = Append(o.decLog, [op |-> "write", buf |-> buf])]

\* parse(self) on the decoder of o, which is moved into the call
DecoderParse(o) ==
    [o EXCEPT !.dec = None,
              !.parsed = Some(parse("DownloadObjectResponse", o.dec[1])),
              !.decLog = Append(o.decLog, [op |-> "parse", buf |-> <<>>])]

\* a call with a cursor all the encoders share
with_shared_cursor(p, c, o) ==
    [d \in DOMAIN p |-> IF d = c THEN o ELSE [p[d] EXCEPT !.mp.cursor = o.mp.cursor]]

\* a call borrows the object of its caller (&mut self, or self by value) and
\* nothing else: o is the object of c after the call
with_mut(p, c, o) == [p EXCEPT ![c] = o]

InitPool ==
    /\ pool \in [Callers -> {Owned(t[1], t[2]) : t \in PoolTasks}]
    /\ ty = "none"
    /\ IdleEncoder
    /\ IdleDecoder
    /\ IdleCall
    /\ IdleSigner
    /\ IdleNames
    /\ IdleBuilder

\* a caller may go on calling its encoder
MayCall(o) ==
    /\ Len(o.encLog) < MaxPoolCalls
    /\ IF o.ends = <<>> THEN TRUE ELSE o.ends[Len(o.ends)] = "ok"

\* caller c calls Multipart::read
PoolRead(c) ==
    /\ pool[c].wrapped.iface = "read"
    /\ MayCall(pool[c])
    /\ \E n \in PoolBufSizes("read") :
          pool' = with_mut(pool, c, EncoderCall(pool[c], "read", n))
    /\ UNCHANGED <<ty, encVars, decVars, callVars, signVars, nameVars, insVars>>

\* caller c calls poll_read
PoolPollRead(c) ==
    /\ pool[c].wrapped.iface = "poll_read"
    /\ MayCall(pool[c])
    /\ \E n \in PoolBufSizes("poll_read") :
          pool' = with_mut(pool, c, EncoderCall(pool[c], "poll_read", n))
    /\ UNCHANGED <<ty, encVars, decVars, callVars, signVars, nameVars, insVars>>

\* the transport of caller c writes into the decoder all that is left of the
\* payload, or the first half of the payload
PoolWrite(c) ==
    /\ IsSome(pool[c].dec)
    /\ Len(pool[c].dec[1].body) < Len(pool[c].received.payload)
    /\ LET got  == Len(pool[c].dec[1].body)
           left == Len(pool[c].received.payload) - got
       IN  \E k \in {left} \cup (IF got = 0 THEN {(left + 1) \div 2} ELSE {}) :
              pool' = with_mut(pool, c,
                        DecoderWrite(pool[c],
                                     SubSeq(pool[c].received.payload, got + 1, got + k)))
    /\ UNCHANGED <<ty, encVars, decVars, callVars, signVars, nameVars, insVars>>

\* caller c calls parse
PoolParse(c) ==
    /\ IsSome(pool[c].dec)
    /\ pool' = with_mut(pool, c, DecoderParse(pool[c]))
    /\ UNCHANGED <<ty, encVars, decVars, callVars, signVars, nameVars, insVars>>

NextPool ==
    \E c \in Callers : PoolRead(c) \/ PoolPollRead(c) \/ PoolWrite(c) \/ PoolParse(c)

SpecPool == InitPool /\ [][NextPool]_vars


----------------------------------------------------------------------------
(* Properties of the Multipart encoder *)

\* "tame_gcs"
Boundary == <<116, 97, 109, 101, 95, 103, 99, 115>>

\* the multipart/related payload for the arguments a, as the wire format
\* spells it out
ExpectedWire(a) ==
    <<45, 45>> \o Boundary \o <<10>>
    \o MULTI_PART_CT
    \o SerializeMetadata(a.metadata) \o <<10>>
    \o <<45, 45>> \o Boundary \o <<10>>
    \o CT_HN
    \o (IF a.metadata.content_type = None THEN DefaultContentType
        ELSE a.metadata.content_type[1])
    \o <<10, 10>>
    \o a.data
    \o <<10, 45, 45>> \o Boundary \o <<45, 45>>

\* the inner body holds exactly the declared number of bytes
BodyMatches == Len(args.data) = args.body_length

\* C1: when the inner body supplies exactly body_length bytes, then whatever
\* the sizes of the (non-empty) buffers of the successive read calls, every
\* call returns, the bytes returned so far are a prefix of the expected
\* payload, and the bytes returned up to the first zero-length result are
\* exactly the expected payload.
C1_ReadYieldsExactPayload ==
    (iface = "read" /\ BodyMatches) =>
        /\ ret.end \in {"new", "ok"}
        /\ IsPrefixOf(out, ExpectedWire(args))
        /\ (IsSome(eosOut) => eosOut[1] = ExpectedWire(args))

\* a read sequence over a non-empty body has reached the first zero-length result
C1_Witness ==
    /\ iface = "read"
    /\ BodyMatches
    /\ args.body_length > 0
    /\ IsSome(eosOut)
    /\ eosOut[1] = ExpectedWire(args)

\* C2: through read and poll_read the encoder never takes more than
\* body_length bytes from the inner body.
C2_NeverTakesMoreThanBodyLength ==
    (iface \in {"read", "poll_read"}) => mp.body.pos <= mp.body_len

\* C3: total_len() is prefix length + body_length + 13, it is the number of
\* bytes the stream has yielded when it signals end-of-stream, and it is the
\* Content-Length insert_multipart sets.
C3_TotalLenIsStreamLength ==
    /\ total_len(mp) = Len(mp.prefix) + mp.body_len + 13
    /\ (IsSome(clen) => clen[1] = total_len(mp))
    /\ (IsSome(eosOut) => Len(eosOut[1]) = total_len(mp))

\* an identically constructed encoder consumed through read with buffers of
\* n bytes until read returns 0
RECURSIVE ReadToEnd(_, _, _)
ReadToEnd(m, n, acc) ==
    LET r == read(m, n)
    IN  IF r.end # "ok" THEN [end |-> r.end, bytes |-> acc]
        ELSE IF r.bytes = <<>> THEN [end |-> "ok", bytes |-> acc]
        ELSE ReadToEnd(r.mp, n, acc \o r.bytes)

SyncOutput(a) ==
    ReadToEnd(wrap(NewBody(a.data, a.chunk), a.body_length, a.metadata), BigBuf, <<>>)

\* C4: the bytes obtained through poll_read up to its first 0, or through
\* poll_next up to None, are the bytes the synchronous read interface yields
\* for an identically constructed encoder (whenever that one reaches its end).
C4_AsyncEqualsSync ==
    (iface \in {"poll_read", "stream"} /\ IsSome(eosOut) /\ SyncOutput(args).end = "ok")
        => eosOut[1] = SyncOutput(args).bytes

----------------------------------------------------------------------------
(* Properties of the streaming decoder *)

\* the first n bytes written into the decoder
FirstWritten(n) == SubSeq(written, 1, n)

Attempted == outcome.call # "none"

FailedWith(r, kind) == ~r.ok /\ r.err.kind = kind

\* C5: with a declared Content-Length N, a decode attempt made with fewer
\* than N bytes written fails with InsufficientData (no constructor runs);
\* one made with N or more bytes yields the response whose body is the first
\* N bytes written, and that body is what the result constructor gets.
C5_DeclaredLengthDecides ==
    (Attempted /\ IsSome(rx.declared)) =>
        IF Len(written) < rx.declared[1]
        THEN FailedWith(outcome.result, "InsufficientData")
        ELSE /\ ~FailedWith(outcome.result, "InsufficientData")
             /\ (outcome.call = "get_response" =>
                   /\ outcome.result.ok
                   /\ outcome.result.value.status = rx.parts.status
                   /\ outcome.result.value.body = FirstWritten(rx.declared[1]))
             /\ (outcome.call = "parse" /\ rx.parts.status = 200 =>
                   /\ outcome.result.ok
                   /\ outcome.result.value.buffer = FirstWritten(rx.declared[1]))
             /\ (outcome.call = "parse" /\ rx.parts.status = 404 => ~outcome.result.ok)

\* parse succeeded on a decoder holding more bytes than the declared length
C5_Witness ==
    /\ outcome.call = "parse"
    /\ IsSome(rx.declared)
    /\ rx.declared[1] > 0
    /\ Len(written) > rx.declared[1]
    /\ outcome.result.ok
    /\ outcome.result.value.buffer = FirstWritten(rx.declared[1])

\* C6: without a Content-Length header a decode attempt uses the bytes
\* buffered so far: the response body, and what the result constructor gets,
\* are exactly the bytes written.
C6_NoContentLengthUsesBuffered ==
    (Attempted /\ rx.parts.headers.content_length = None) =>
        /\ (outcome.call = "get_response" =>
              outcome.result.ok /\ outcome.result.value.body = written)
        /\ (outcome.call = "parse" /\ rx.parts.status = 200 =>
              outcome.result.ok /\ outcome.result.value.buffer = written)

\* C7: after a decode attempt failed with InsufficientData the caller still
\* has the decoder, holding every byte written so far and the same parts.
C7_InsufficientDataKeepsDecoder ==
    (Attempted /\ FailedWith(outcome.result, "InsufficientData")) =>
        /\ IsSome(dec)
        /\ dec[1].body = written
        /\ dec[1].parts = rx.parts

----------------------------------------------------------------------------
(* Properties of try_from_parts *)

Decoded == pc = "done"

\* the Content-Type of the response is a string starting with pat
ContentTypeStartsWith(pat) ==
    /\ response.headers.content_type # None
    /\ \A i \in 1..Len(response.headers.content_type[1]) :
           response.headers.content_type[1][i] \in 32..126
    /\ IsPrefixOf(pat, response.headers.content_type[1])

\* C8: the default try_from_parts gives a 2xx response to the type's
\* constructor and returns what it returns; for any other status it returns
\* the structured API error, with the body's code, when the Content-Type
\* starts with application/json and the body parses as the error object, and
\* the HTTP-status error carrying the response's status otherwise.
C8_DefaultCascade ==
    Decoded =>
        IF response.status \in 200..299
        THEN result = try_from(ty, response)
        ELSE /\ ~result.ok
             /\ IF ContentTypeStartsWith(ApplicationJson) /\ ParseApiError(response.body).ok
                THEN /\ result.err.kind = "Api"
                     /\ result.err.code = ParseApiError(response.body).value.code
                     /\ (response.body = DocNotFound => result.err.code = 404)
                ELSE /\ result.err.kind = "HttpStatus"
                     /\ result.err.status = response.status

\* a 404 with the JSON error body was decoded into the API error 404
C8_Witness ==
    /\ Decoded
    /\ response.status = 404
    /\ response.headers.content_type = Some(ApplicationJsonUtf8)
    /\ response.body = DocNotFound
    /\ FailedWith(result, "Api")
    /\ result.err.code = 404

\* the response was decoded as the response of a deletion
DeleteDecoded == Decoded /\ ty = "DeleteObjectResponse"

\* C30: try_from_parts decodes a delete response into success exactly when
\* the status is 204, whatever the body and the Content-Type are; any other
\* 2xx status gives the HTTP-status error carrying that status, and a status
\* outside 2xx gives the API error or the HTTP-status error, never success.
C30_DeleteSucceedsOnlyOn204 ==
    DeleteDecoded =>
        /\ result.ok <=> response.status = 204
        /\ response.status = 204 => result = Ok([type |-> "DeleteObjectResponse"])
        /\ (response.status \in 200..299 /\ response.status # 204) =>
              /\ FailedWith(result, "HttpStatus")
              /\ result.err.status = response.status
        /\ response.status \notin 200..299 =>
              /\ ~result.ok
              /\ result.err.kind \in {"Api", "HttpStatus"}
              /\ result.err.kind = "HttpStatus" => result.err.status = response.status

\* a 200 carrying a body was decoded as a deletion into the HTTP-status
\* error 200
C30_Witness ==
    /\ DeleteDecoded
    /\ response.status = 200
    /\ response.body # <<>>
    /\ FailedWith(result, "HttpStatus")
    /\ result.err.status = 200

----------------------------------------------------------------------------
(* Properties of the resumable-append response *)

IsVariant(r, variant) == r.ok /\ r.value.metadata.variant = variant

\* C9: PartialSize is returned only for 308, Complete only for 200 and 201,
\* and every other status yields an error value.
C9_VariantFollowsStatus ==
    Decoded =>
        /\ (IsVariant(result, "PartialSize") => response.status = 308)
        /\ (IsVariant(result, "Complete") => response.status \in {200, 201})
        /\ (response.status \notin {308, 200, 201} =>
              ~result.ok /\ result.err.kind \in {"HttpStatus", "Api"})

\* a 204 carrying a body that is valid Metadata was decoded into an error
C9_Witness ==
    /\ Decoded
    /\ response.status = 204
    /\ response.body = DocMetadata
    /\ FailedWith(result, "HttpStatus")

\* the text after the last '-' of s
RECURSIVE AfterLastDash(_)
AfterLastDash(s) ==
    IF \A i \in 1..Len(s) : s[i] # 45 THEN s ELSE AfterLastDash(Tail(s))

\* s is a decimal number: one or more digits
IsDecimal(s) == s # <<>> /\ \A i \in 1..Len(s) : s[i] \in 48..57

\* the value of a decimal number, on five limbs (wide enough for 2^64)
RECURSIVE DecimalValue(_, _)
DecimalValue(s, acc) ==
    IF s = <<>> THEN acc
    ELSE DecimalValue(Tail(s), MulAddLimbs(acc, 10, Head(s) - 48).limbs)

\* the Range end of the response when it is a decimal number of 64 bits
RangeEndValue == DecimalValue(AfterLastDash(response.headers.range[1]), <<0, 0, 0, 0, 0>>)

HasDecimalRangeEnd ==
    /\ response.headers.range # None
    /\ \A i \in 1..Len(response.headers.range[1]) : response.headers.range[1][i] \in 32..126
    /\ IsDecimal(AfterLastDash(response.headers.range[1]))
    /\ RangeEndValue[5] = 0

\* the Range header is a string whose end holds a character no number has
HasNonNumericRangeEnd ==
    /\ response.headers.range # None
    /\ \A i \in 1..Len(response.headers.range[1]) : response.headers.range[1][i] \in 32..126
    /\ \/ AfterLastDash(response.headers.range[1]) = <<>>
       \/ \E i \in 1..Len(AfterLastDash(response.headers.range[1])) :
            AfterLastDash(response.headers.range[1])[i] \notin (48..57) \cup {43}

\* C10: a 308 whose Range end is the decimal number v yields
\* PartialSize(v + 1); without a Range header it yields UnknownHeader(Range);
\* with a Range end that is no number it yields OpaqueHeaderValue.
C10_PartialSizeIsRangeEndPlusOne ==
    (Decoded /\ response.status = 308) =>
        /\ (response.headers.range = None =>
              FailedWith(result, "UnknownHeader") /\ result.err.name = "range")
        /\ (HasNonNumericRangeEnd => FailedWith(result, "OpaqueHeaderValue"))
        /\ (HasDecimalRangeEnd =>
              /\ IsVariant(result, "PartialSize")
              /\ result.value.metadata.size \o <<0>> = MulAddLimbs(RangeEndValue, 1, 1).limbs)



\* C29: decoding a 308 never ends the process, and for every Range end v of
\* 64 bits the PartialSize returned is v + 1 within 64 bits: the addition
\* neither aborts nor wraps to 0.
C29_RangeEndPlusOneNeverOverflows ==
    (Decoded /\ response.status = 308) =>
        /\ result # Panicked
        /\ (HasDecimalRangeEnd /\ IsVariant(result, "PartialSize")) =>
              result.value.metadata.size # <<0, 0, 0, 0>>

\* the response is an error response of a resumable append
NotAppendStatus == response.status \notin {308, 200, 201}

\* the structured API error made of the response's status and body
IsWrappedText(r) ==
    /\ FailedWith(r, "Api")
    /\ r.err.code = response.status
    /\ r.err.message = response.body
    /\ r.err.errors = <<>>

IsHttpStatusOf(r) == FailedWith(r, "HttpStatus") /\ r.err.status = response.status

\* the body is UTF-8 text (of the bodies of the model, the ASCII ones)
BodyIsText == \A i \in 1..Len(response.body) : response.body[i] < 128

\* C11 as stated: with a status other than 308, 200 and 201, a text/plain
\* Content-Type gives the API error carrying the status and the raw body,
\* and anything else gives the HTTP-status error.
C11_TextPlainIsWrapped ==
    (Decoded /\ NotAppendStatus) =>
        IF response.headers.content_type = Some(TextPlain)
        THEN IsWrappedText(result)
        ELSE IsHttpStatusOf(result)

\* C11, amended: with a status other than 308, 200 and 201, a Content-Type
\* that starts with text/plain and a body that is non-empty UTF-8 text give
\* the API error carrying the status, the raw body and no sub-errors; every
\* other such response, a text/plain one with an empty or non-UTF-8 body
\* included, gives the HTTP-status error.
C11_NonEmptyTextPlainIsWrapped ==
    (Decoded /\ NotAppendStatus) =>
        IF /\ ContentTypeStartsWith(TextPlain)
           /\ response.body # <<>>
           /\ BodyIsText
        THEN IsWrappedText(result)
        ELSE IsHttpStatusOf(result)

\* a 404 with a text/plain body was wrapped into the API error 404
C11_Witness ==
    /\ Decoded
    /\ response.status = 404
    /\ response.headers.content_type = Some(TextPlain)
    /\ response.body = DocText
    /\ IsWrappedText(result)

\* C12: decoding the response to a cancellation succeeds exactly when the
\* status is 499; every other status, the 2xx ones included, gives the
\* HTTP-status error carrying that status.
C12_CancelNeeds499 ==
    Decoded =>
        /\ (result.ok <=> response.status = 499)
        /\ (response.status # 499 => IsHttpStatusOf(result))

\* a 200 in answer to a cancellation was decoded into HttpStatus(200)
C12_Witness ==
    /\ Decoded
    /\ ty = "CancelResumableInsertResponse"
    /\ response.status = 200
    /\ IsHttpStatusOf(result)

----------------------------------------------------------------------------
(* Properties of the session-initiation response *)

\* the text of a URI: its parts as http::Uri writes them
UriText(uri) ==
    (IF IsSome(uri.scheme) THEN uri.scheme[1] \o <<58, 47, 47>> ELSE <<>>)
    \o (IF IsSome(uri.authority) THEN uri.authority[1] ELSE <<>>)
    \o uri.path_and_query

\* C13: for a 2xx status, a Location header holding a URI yields the session
\* with exactly that URI, a missing one yields UnknownHeader(Location), and
\* one that is no URI (or no string) yields an error other than
\* UnknownHeader; a status that is not 2xx never yields a session.
C13_SessionNeedsLocation ==
    Decoded =>
        IF response.status \in 200..299
        THEN /\ (response.headers.location \in {Some(SessionUri), Some(PathUri)} =>
                   /\ result.ok
                   /\ UriText(result.value.resumable_session) = response.headers.location[1])
             /\ (response.headers.location = None =>
                   FailedWith(result, "UnknownHeader") /\ result.err.name = "location")
             /\ (response.headers.location \in
                     {Some(OpaqueValue)} \cup { Some(l) : l \in NotUris } =>
                   ~result.ok /\ result.err.kind # "UnknownHeader")
        ELSE ~result.ok

\* a 201 with the session URI in its Location header was decoded into the
\* session of that URI
C13_Witness ==
    /\ Decoded
    /\ response.status = 201
    /\ response.headers.location = Some(SessionUri)
    /\ result.ok
    /\ result.value.resumable_session.authority = Some(SubSeq(SessionUri, 9, 30))
    /\ UriText(result.value.resumable_session) = SessionUri



----------------------------------------------------------------------------
(* Properties of UrlSigner::generate *)

\* the runs of generate made so far
Runs == 1..Len(url)

\* the pieces of s between the occurrences of the character c
RECURSIVE SplitOn(_, _)
SplitOn(s, c) ==
    IF \A i \in 1..Len(s) : s[i] # c THEN <<s>>
    ELSE LET at == CHOOSE i \in 1..Len(s) : s[i] = c /\ \A j \in 1..(i - 1) : s[j] # c
         IN  <<SubSeq(s, 1, at - 1)>> \o SplitOn(SubSeq(s, at + 1, Len(s)), c)

\* the value of a hexadecimal digit
HexValue(c) == IF c \in 48..57 THEN c - 48 ELSE IF c \in 65..70 THEN c - 55 ELSE c - 87

\* what a form-urlencoded text stands for: '+' is a space, "%XX" a byte
FormDecode(s) ==
    Flatten([i \in 1..Len(s) |->
               IF s[i] = 37 THEN <<16 * HexValue(s[i + 1]) + HexValue(s[i + 2])>>
               ELSE IF (i > 1 /\ s[i - 1] = 37) \/ (i > 2 /\ s[i - 2] = 37) THEN <<>>
               ELSE IF s[i] = 43 THEN <<32>>
               ELSE <<s[i]>>])

\* the (key, value) pairs a query string holds, in its order
QueryPairs(query) ==
    LET parts == SplitOn(query, 38)
    IN  [i \in 1..Len(parts) |->
           LET kv == SplitOn(parts[i], 61)
           IN  <<FormDecode(kv[1]), FormDecode(join(Tail(kv), 61))>>]

\* the pairs of the URL run i returned
PairsOf(i) == QueryPairs(url[i].res.value.query[1])

\* how many times x occurs in the sequence s
Count(s, x) == Cardinality({i \in 1..Len(s) : s[i] = x})

\* more than seven days were asked for, fractions of a second counted
MoreThanSevenDays ==
    \/ sig.optional.duration.secs > 604800
    \/ sig.optional.duration.secs = 604800 /\ sig.optional.duration.nanos > 0

\* run i was refused for its duration, before any capability was invoked
RefusedTooLong(i) ==
    /\ ~url[i].res.ok
    /\ url[i].res.err = [kind      |-> "TooLongExpiration",
                         requested |-> sig.optional.duration.secs,
                         max       |-> 604800]
    /\ url[i].calls = <<>>

SigningKeys ==
    << <<88, 45, 71, 111, 111, 103, 45, 65, 108, 103, 111, 114, 105, 116,
        104, 109>>, <<88, 45, 71, 111, 111, 103, 45, 67, 114, 101, 100, 101, 110, 116,
        105, 97, 108>>, <<88, 45, 71, 111, 111, 103, 45, 68, 97, 116, 101>>,
       <<88, 45, 71, 111, 111, 103, 45, 69, 120, 112, 105, 114, 101, 115>>, <<88, 45, 71, 111, 111, 103, 45, 83, 105, 103, 110, 101, 100, 72, 101,
        97, 100, 101, 114, 115>> >>

\* "X-Goog-Signature"
SignatureKey == <<88, 45, 71, 111, 111, 103, 45, 83, 105, 103, 110, 97, 116, 117, 114,
        101>>

\* the keys of a sequence of pairs
KeysOf(pairs) == [k \in 1..Len(pairs) |-> pairs[k][1]]

\* the pairs last, after front, are sorted by key and signed: last is
\* X-Goog-Signature, front is in ascending order of key and holds the pairs
\* of params and, besides, each signing key once
SortedAndSigned(front, last, params) ==
    /\ last[1] = SignatureKey
    /\ Len(front) = Len(params) + 5
    /\ \A j \in 1..(Len(front) - 1) : ~LexLess(front[j + 1][1], front[j][1])
    /\ \A k \in 1..Len(params) : Count(front, params[k]) = Count(params, params[k])
    /\ \A k \in 1..5 :
           Count(KeysOf(front), SigningKeys[k]) = 1 + Count(KeysOf(params), SigningKeys[k])

\* C15: in every URL generate returns, the last pair is X-Goog-Signature and
\* the pairs before it are the caller's parameters and the five signing
\* parameters, in ascending order of key.
C15_QuerySortedSignatureLast ==
    \A i \in Runs :
        url[i].res.ok =>
            LET pairs == PairsOf(i)
            IN  SortedAndSigned(SubSeq(pairs, 1, Len(pairs) - 1), pairs[Len(pairs)],
                                sig.optional.query_params)

\* a URL was returned for a caller whose parameters sort after
\* X-Goog-Signature, and its last pair is the signature
C15_Witness ==
    /\ Len(url) > 0
    /\ url[1].res.ok
    /\ sig.optional.query_params # <<>>
    /\ LexLess(SignatureKey, sig.optional.query_params[1][1])
    /\ PairsOf(1)[Len(PairsOf(1))][1] = SignatureKey
    /\ LexLess(SignatureKey, PairsOf(1)[Len(PairsOf(1)) - 1][1])



\* the canonical request run i gave to the digest capability
CanonicalRequestOf(i) ==
    SelectSeq(url[i].calls, LAMBDA c : c.cap = "digest")[1].data

\* run i got as far as the digest
Digested(i) == \E k \in 1..Len(url[i].calls) : url[i].calls[k].cap = "digest"

\* the header lines of a canonical request: its lines after the verb, the
\* resource and the query, up to the empty line before the signed headers
HeaderLines(lines) == SubSeq(lines, 4, Len(lines) - 3)

\* "host:"
HostColon == <<104, 111, 115, 116, 58>>

\* the canonical request has one host line, for storage.googleapis.com, and
\* names host among its signed headers
HostInjected(lines) ==
    /\ Count([k \in 1..Len(HeaderLines(lines)) |->
                IsPrefixOf(HostColon, HeaderLines(lines)[k])], TRUE) = 1
    /\ Count(HeaderLines(lines), HostColon \o StorageHost) = 1
    /\ Count(SplitOn(lines[Len(lines) - 1], 59), HOST) = 1

\* C16: whatever headers the caller supplies, the canonical header block
\* holds exactly one host line, its value is storage.googleapis.com, and host
\* is one of the names of X-Goog-SignedHeaders.
C16_HostAlwaysInjected ==
    \A i \in Runs :
        /\ Digested(i) =>
             LET lines == SplitOn(CanonicalRequestOf(i), 10)
             IN  HostInjected(lines)
        /\ url[i].res.ok =>
             LET pairs == PairsOf(i)
             IN  \E k \in 1..Len(pairs) :
                     /\ pairs[k][1] = SigningKeys[5]
                     /\ Count(SplitOn(pairs[k][2], 59), HOST) = 1

\* a URL was signed for a caller who supplied a Host of their own
C16_Witness ==
    /\ Len(url) > 0
    /\ url[1].res.ok
    /\ \E k \in 1..Len(sig.optional.headers) :
           /\ sig.optional.headers[k].key = HOST
           /\ sig.optional.headers[k].vals # <<StorageHost>>
    /\ HostInjected(SplitOn(CanonicalRequestOf(1), 10))

\* what the clock readings are in the form YYYYMMDD'T'HHMMSS'Z'
ExpectedTimestamps ==
    << <<50, 48, 50, 54, 48, 49, 48, 53, 84, 48, 57, 48, 48, 48, 55, 90>>, <<50, 48, 50, 54, 49, 49, 51, 48, 84, 50, 51, 53, 57, 53, 57, 90>> >>

\* the scope of a timestamp and a region, written out
ExpectedScope(ts, region) ==
    SubSeq(ts, 1, 8) \o <<47>> \o region \o <<47, 115, 116, 111, 114, 97, 103, 101, 47, 103, 111, 111, 103, 52,
        95, 114, 101, 113, 117, 101, 115, 116>>

\* the string to sign for a canonical request, written out
ExpectedStringToSign(ts, region, request) ==
    <<71, 79, 79, 71, 52, 45, 82, 83, 65, 45, 83, 72, 65, 50, 53, 54>> \o <<10>> \o ts \o <<10>> \o ExpectedScope(ts, region)
    \o <<10>> \o to_hex(digest(request))

\* the URL of run i carries the timestamp ts as X-Goog-Date and in its
\* credential, and its signature is the signature of the string to sign
\* made of ts and the canonical request
SignatureVerifies(i, ts) ==
    LET pairs   == PairsOf(i)
        request == CanonicalRequestOf(i)
        lines   == SplitOn(request, 10)
        signed  == sign(sig.key_provider.key,
                        ExpectedStringToSign(ts, sig.optional.region, request))
    IN  /\ Count(pairs, <<SigningKeys[3], ts>>) = 1
        /\ Count(pairs, <<SigningKeys[2],
                          sig.key_provider.authorizer \o <<47>>
                          \o ExpectedScope(ts, sig.optional.region)>>) = 1
        /\ signed.ok
        /\ pairs[Len(pairs)] = <<SignatureKey, to_hex(signed.value)>>
        /\ QueryPairs(lines[3]) = SubSeq(pairs, 1, Len(pairs) - 1)
        /\ lines[1] = sig.optional.method

\* C17: two runs on the same clock reading return the same result, and the
\* signature of every URL returned is the signature, recomputed from the
\* canonical request, of the string to sign whose timestamp is the one of
\* X-Goog-Date and of the credential scope: the clock reading of the run.
C17_DeterministicAndVerifiable ==
    /\ \A i, j \in Runs : url[i].clock = url[j].clock => url[i].res = url[j].res
    /\ \A i \in Runs : url[i].res.ok => SignatureVerifies(i, ExpectedTimestamps[url[i].clock])

\* two runs on the same clock reading returned the same URL, whose
\* signature verifies
C17_Witness ==
    /\ Len(url) = 2
    /\ url[1].clock = url[2].clock
    /\ url[1].res.ok
    /\ url[1].res = url[2].res
    /\ SignatureVerifies(2, ExpectedTimestamps[url[2].clock])



----------------------------------------------------------------------------
(* Properties of the validated names *)

\* the first validation of the name, and the string it was run on
FirstResult == valid[1]

IsBucket == name # <<>> /\ name.kind = "BucketName"

IsObject == name # <<>> /\ name.kind = "ObjectName"

\* the chars a bucket name is drawn from
BucketAlphabet == (97..122) \cup (48..57) \cup {45, 95}

\* a string of 3 to 63 chars of the bucket alphabet that neither starts nor
\* ends with '-' or '_', does not start with "goog" and holds neither
\* "google" nor "g00gle"
ValidBucketText(t) ==
    /\ Len(t) >= 3
    /\ Len(t) <= 63
    /\ \A k \in 1..Len(t) : t[k] \in BucketAlphabet
    /\ t[1] \notin {45, 95}
    /\ t[Len(t)] \notin {45, 95}
    /\ ~(Len(t) >= 4 /\ SubSeq(t, 1, 4) = Goog)
    /\ \A k \in 1..(Len(t) - 5) : SubSeq(t, k, k + 5) \notin {Google, G00gle}

\* C18: a bucket name of 3 to 63 chars of a-z, 0-9, '-' and '_' that neither
\* starts nor ends with '-' or '_', does not start with "goog" and holds
\* neither "google" nor "g00gle" is validated with success; the validated
\* name exposes the string as it was given, and validating what it exposes
\* succeeds again with the same value.
C18_ValidBucketNamesIdempotent ==
    (IsBucket /\ ValidBucketText(name.text) /\ valid # <<>>) =>
        /\ FirstResult.ok
        /\ as_ref(FirstResult.value) = name.text
        /\ \A k \in 2..Len(valid) : valid[k] = FirstResult

\* a valid bucket name with '_' and '-' inside it, validated twice
C18_Witness ==
    /\ IsBucket
    /\ name.text = <<109, 121, 95, 98, 117, 99, 107, 101, 116, 45, 48, 49>>
    /\ Len(valid) = 2
    /\ valid[2].ok
    /\ as_ref(valid[2].value) = name.text

\* the positions (from 0) of the chars of a bucket name that are upper case,
\* outside the bucket alphabet, or '-' or '_' at either end
BucketBadPositions(t) ==
    {p \in 0..(Len(t) - 1) :
        \/ t[p + 1] \notin BucketAlphabet
        \/ (t[p + 1] \in {45, 95} /\ (p = 0 \/ p = Len(t) - 1))}

\* the chars forbidden in an object name: CR, LF, '#', '[', ']', '*', '?',
\* U+7F to U+84 and U+86 to U+9F
ObjectForbidden == {13, 10, 35, 91, 93, 42, 63} \cup (127..132) \cup (134..159)

ObjectBadPositions(t) == {p \in 0..(Len(t) - 1) : t[p + 1] \in ObjectForbidden}

\* the naming rules a string violates
BucketRulesViolated(t) ==
    (IF Len(t) < 3 \/ Len(t) > 63 THEN {"count"} ELSE {})
    \cup (IF BucketBadPositions(t) # {} THEN {"character"} ELSE {})
    \cup (IF Len(t) >= 4 /\ SubSeq(t, 1, 4) = Goog THEN {"prefix"} ELSE {})
    \cup (IF \E k \in 1..(Len(t) - 5) : SubSeq(t, k, k + 5) \in {Google, G00gle}
          THEN {"sequence"} ELSE {})

ObjectRulesViolated(t, bytes) ==
    (IF bytes = 0 \/ bytes > 1024 THEN {"length"} ELSE {})
    \cup (IF ObjectBadPositions(t) # {} THEN {"character"} ELSE {})
    \cup (IF t \in {<<46>>, <<46, 46, 46>>} THEN {"dot"} ELSE {})
    \cup (IF Len(t) >= Len(AcmeChallenge) /\ SubSeq(t, 1, Len(AcmeChallenge)) = AcmeChallenge
          THEN {"acme"} ELSE {})

\* the error of a string that violates the one rule r
BucketErrorFor(r, t, e) ==
    CASE r = "count"     -> e = [kind |-> "InvalidCharacterCount", len |-> Len(t), min |-> 3, max |-> 63]
      [] r = "character" -> /\ e.kind = "InvalidCharacter"
                            /\ e.index \in BucketBadPositions(t)
                            /\ e.char = t[e.index + 1]
      [] r = "prefix"    -> e.kind = "InvalidPrefix"
      [] r = "sequence"  -> e.kind = "InvalidSequence"

ObjectErrorFor(r, t, bytes, e) ==
    CASE r = "length"    -> e = [kind |-> "InvalidLength", min |-> 1, max |-> 1024, len |-> bytes]
      [] r = "character" -> /\ e.kind = "InvalidCharacter"
                            /\ e.index \in ObjectBadPositions(t)
                            /\ e.char = t[e.index + 1]
      [] r = "dot"       -> e.kind = "InvalidPrefix"
      [] r = "acme"      -> e.kind = "InvalidPrefix"

\* C19: a string that violates exactly one naming rule fails validation with
\* the error of that rule: InvalidCharacterCount{len, 3, 63} for a bucket
\* length outside 3..63, InvalidCharacter(i, c) with c the char at position i
\* for a disallowed bucket char or '-'/'_' at either end, InvalidPrefix for a
\* "goog" prefix, InvalidSequence for "google"/"g00gle", InvalidLength{len, 1,
\* 1024} for an object name of 0 or more than 1024 bytes, InvalidCharacter(i,
\* c) for a forbidden object char, InvalidPrefix for ".", "..." and the
\* prefix ".well-known/acme-challenge".
C19_OneRuleOneError ==
    valid # <<>> =>
        /\ IsBucket =>
              \A r \in BucketRulesViolated(name.text) :
                  BucketRulesViolated(name.text) = {r} =>
                      ~FirstResult.ok /\ BucketErrorFor(r, name.text, FirstResult.err)
        /\ IsObject =>
              \A r \in ObjectRulesViolated(name.text, str_len(name.text)) :
                  ObjectRulesViolated(name.text, str_len(name.text)) = {r} =>
                      ~FirstResult.ok
                      /\ ObjectErrorFor(r, name.text, str_len(name.text), FirstResult.err)

\* the bucket name "uhOH" was refused for the 'O' at position 2
C19_Witness ==
    /\ IsBucket
    /\ name.text = <<117, 104, 79, 72>>
    /\ BucketRulesViolated(name.text) = {"character"}
    /\ valid # <<>>
    /\ ~FirstResult.ok
    /\ FirstResult.err = [kind |-> "InvalidCharacter", index |-> 2, char |-> 79]

\* the rejected positions of the name under validation
RejectedPositions ==
    IF IsBucket THEN BucketBadPositions(name.text) ELSE ObjectBadPositions(name.text)

\* C20: when a name holds several rejected chars, the validation error
\* enumerates every one of them with its offset. The error of the code holds
\* one index and one char, so it enumerates them all only when that one pair
\* is every rejected char of the name.
C20_EveryRejectedCharReported ==
    (valid # <<>> /\ ~FirstResult.ok /\ FirstResult.err.kind = "InvalidCharacter") =>
        \A p \in RejectedPositions :
            FirstResult.err.index = p /\ FirstResult.err.char = name.text[p + 1]


----------------------------------------------------------------------------
(* Properties of Object::insert_simple *)

\* the call of the test insert_vanilla: bucket "bucket", object
\* "object/with/deep/path", 13 bytes of content, no options
IsVanillaInsert ==
    /\ insArgs # <<>>
    /\ insArgs.id = [bucket |-> <<98, 117, 99, 107, 101, 116>>, object |-> <<111, 98, 106, 101, 99, 116, 47, 119, 105, 116, 104, 47, 100, 101,
        101, 112, 47, 112, 97, 116, 104>>]
    /\ insArgs.content = <<103, 114, 101, 97, 116, 32, 99, 111, 110, 116, 101, 110, 116>>
    /\ insArgs.length = 13
    /\ insArgs.optional = None

\* the request has the method POST and the headers Content-Type:
\* application/octet-stream and Content-Length: 13
VanillaMethodAndHeaders(r) ==
    /\ r.ok
    /\ r.value.method = "POST"
    /\ Len(r.value.headers) = 2
    /\ r.value.headers[1][1] = CONTENT_TYPE
    /\ r.value.headers[1][2] = DefaultContentType
    /\ r.value.headers[2][1] = CONTENT_LENGTH
    /\ r.value.headers[2][2] = <<49, 51>>

VanillaUri ==
    <<104, 116, 116, 112, 115, 58, 47, 47, 119, 119, 119, 46, 103, 111,
        111, 103, 108, 101, 97, 112, 105, 115, 46, 99, 111, 109, 47, 117, 112,
        108, 111, 97, 100, 47, 115, 116, 111, 114, 97, 103, 101, 47, 118, 49,
        47, 98, 47, 98, 117, 99, 107, 101, 116, 47, 111, 63, 110, 97, 109,
        101, 61, 111, 98, 106, 101, 99, 116, 47, 119, 105, 116, 104, 47, 100,
        101, 101, 112, 47, 112, 97, 116, 104, 38, 117, 112, 108, 111, 97, 100,
        84, 121, 112, 101, 61, 109, 101, 100, 105, 97>>

\* "&prettyPrint=false"
PrettyPrintFalse ==
    <<38, 112, 114, 101, 116, 116, 121, 80, 114, 105, 110, 116, 61, 102, 97, 108, 115, 101>>

\* C21 as stated: the request of the vanilla insert has the method POST, the
\* URI ...?name=object/with/deep/path&uploadType=media with nothing after
\* uploadType=media, Content-Type: application/octet-stream and
\* Content-Length: 13.
C21_VanillaInsertRequest ==
    (IsVanillaInsert /\ built # None) =>
        /\ VanillaMethodAndHeaders(built[1])
        /\ built[1].value.uri = VanillaUri

\* C21 (amended): the request of the vanilla insert has the method POST,
\* Content-Type: application/octet-stream, Content-Length: 13 and the URI
\* ...?name=object/with/deep/path&uploadType=media&prettyPrint=false: the '/'
\* of the object name is left as it is, and the default pretty_print of
\* false is serialized after uploadType=media.
C21_VanillaInsertRequestPrettyPrintFalse ==
    (IsVanillaInsert /\ built # None) =>
        /\ VanillaMethodAndHeaders(built[1])
        /\ built[1].value.uri = VanillaUri \o PrettyPrintFalse

\* the vanilla insert has been built
C21_Witness ==
    /\ IsVanillaInsert
    /\ built # None
    /\ built[1].ok
    /\ built[1].value.body = insArgs.content
    /\ Len(built[1].value.uri) = Len(VanillaUri) + Len(PrettyPrintFalse)


----------------------------------------------------------------------------
(* Properties of interleaved callers *)

\* the object of a caller after the calls of log[i..] made on it in a row
RECURSIVE AloneEncoder(_, _, _)
AloneEncoder(o, log, i) ==
    IF i > Len(log) THEN o
    ELSE AloneEncoder(EncoderCall(o, log[i][1], log[i][2]), log, i + 1)

RECURSIVE AloneDecoder(_, _, _)
AloneDecoder(o, log, i) ==
    IF i > Len(log) THEN o
    ELSE AloneDecoder(IF log[i].op = "parse" THEN DecoderParse(o)
                      ELSE DecoderWrite(o, log[i].buf),
                      log, i + 1)

\* the objects of a caller that made the same calls with no other caller
\* running
DrivenAlone(o) ==
    AloneDecoder(AloneEncoder(Owned(o.wrapped, o.received), o.encLog, 1), o.decLog, 1)

----------------------------------------------------------------------------
(* Properties of the cursor of the encoder *)

\* the place of a phase in the order Prefix, Body, Suffix, End
PhaseRank(part) ==
    CASE part = "Prefix" -> 0
      [] part = "Body"   -> 1
      [] part = "Suffix" -> 2
      [] part = "End"    -> 3
      [] OTHER           -> 9

\* the full length of the segment of a phase: the prefix, body_length, the
\* 13 bytes of the suffix
SegmentLen(m, part) ==
    CASE part = "Prefix" -> Len(m.prefix)
      [] part = "Body"   -> m.body_len
      [] OTHER           -> 13

\* a cursor step stays in its phase, or goes to the next phase from the full
\* length of the segment and resets the position
StepInOrder(m, st) ==
    \/ st.to.part = st.from.part
    \/ /\ PhaseRank(st.to.part) = PhaseRank(st.from.part) + 1
       /\ st.from.position + st.copied = SegmentLen(m, st.from.part)
       /\ st.to.position = 0

\* the cursor steps of a call follow one another from the cursor of m, each
\* of them in order
StepsInOrder(m, steps) ==
    \A i \in 1..Len(steps) :
        /\ steps[i].from = (IF i = 1 THEN m.cursor ELSE steps[i - 1].to)
        /\ StepInOrder(m, steps[i])

\* whatever buffer the next read or poll_read is given, its cursor steps are
\* in order
NextCallStepsInOrder ==
    (mp # <<>> /\ iface \in {"read", "poll_read"}) =>
        \A n \in BufSizes :
            StepsInOrder(mp, IF iface = "read" THEN read(mp, n).steps
                             ELSE poll_read(mp, n).steps)

\* a call leaves the encoder in the phase it was in or in a later one, and
\* poll_next in the same or the next one
PhaseGoesForward ==
    mp # <<>> =>
        /\ PhaseRank(mp'.cursor.part) >= PhaseRank(mp.cursor.part)
        /\ PhaseRank(mp'.cursor.part) <= 3
        /\ iface = "stream" => PhaseRank(mp'.cursor.part) <= PhaseRank(mp.cursor.part) + 1

\* C23: the phase of the encoder advances one step at a time in the order
\* Prefix, Body, Suffix, End, never backwards and never skipping a phase; under
\* read and poll_read a phase is left only when the position equals the full
\* length of the segment (prefix length, body_length, 13), and the position
\* is then reset to 0.
C23_PhaseAdvancesInOrder ==
    [](NextCallStepsInOrder) /\ [][PhaseGoesForward]_vars

\* a read or poll_read has just left Body: prefix and body are out, the
\* cursor is at the start of Suffix
C23_Witness ==
    /\ mp # <<>>
    /\ iface \in {"read", "poll_read"}
    /\ mp.cursor = [position |-> 0, part |-> "Suffix"]
    /\ mp.body_len > 0
    /\ Len(out) = Len(mp.prefix) + mp.body_len
    /\ ret.n > 0


\* in End every call the caller can make next hands out nothing and leaves
\* the encoder as it is: read gives Ok(0), poll_read Ready(Ok(0)), poll_next
\* None
EndAnswersNothing ==
    (mp # <<>> /\ mp.cursor.part = "End") =>
        /\ mp.cursor.position = 0
        /\ \A n \in BufSizes :
              /\ iface = "read" =>
                    read(mp, n) = [mp |-> mp, bytes |-> <<>>, end |-> "ok", steps |-> <<>>]
              /\ iface = "poll_read" =>
                    poll_read(mp, n) = [mp |-> mp, bytes |-> <<>>, end |-> "ok", steps |-> <<>>]
        /\ iface = "stream" => poll_next(mp) = [mp |-> mp, item |-> None]

\* next() was never called in End, and no call panicked
NeverNextInEnd ==
    mp # <<>> => (mp.cursor.part \in {"Prefix", "Body", "Suffix", "End"} /\ ret.end # "panic")

\* a call made in End returns zero bytes and changes nothing of the encoder
\* or of what the caller has got
CallInEndChangesNothing ==
    (mp # <<>> /\ mp.cursor.part = "End") =>
        /\ mp' = mp
        /\ out' = out
        /\ ret' = [end |-> "ok", n |-> 0]

\* C24: End is absorbing. Once the last suffix byte is out, every later read
\* returns Ok(0), every later poll_read Ready(Ok(0)) and every later
\* poll_next None, however many calls follow; the phase stays End and the
\* position 0, MultipartPart::next is never called in End and no call panics.
C24_EndIsAbsorbing ==
    [](EndAnswersNothing /\ NeverNextInEnd) /\ [][CallInEndChangesNothing]_vars

\* a call was made in End: it handed out nothing after the whole payload
C24_Witness ==
    /\ mp # <<>>
    /\ mp.cursor = [position |-> 0, part |-> "End"]
    /\ ret = [end |-> "ok", n |-> 0]
    /\ eosOut = Some(out)
    /\ Len(out) >= Len(mp.prefix) + 13
    /\ SubSeq(out, Len(out) - 12, Len(out)) = MULTI_PART_SUFFIX


\* C25: every call of Multipart::read returns, whatever the inner reader and
\* the declared body_length, also when the reader ends before body_length
\* bytes or supplies more: no call of read is left spinning in its loop.
C25_ReadAlwaysReturns ==
    (mp # <<>> /\ iface = "read") => ret.end # "hang"

\* C26: a call of read or poll_read with a buffer that is not empty returns
\* zero bytes only in End, after the complete suffix has been handed out,
\* for every body_length.
C26_ZeroBytesOnlyInEnd ==
    (mp # <<>> /\ iface \in {"read", "poll_read"} /\ ret.end = "ok" /\ ret.n = 0) =>
        /\ mp.cursor.part = "End"
        /\ Len(out) >= 13
        /\ SubSeq(out, Len(out) - 12, Len(out)) = MULTI_PART_SUFFIX

\* C27: after any calls of read and poll_read the position is below the
\* prefix length in Prefix, at most body_length in Body, below 13 in Suffix
\* and 0 in End.
C27_CursorWithinSegment ==
    (mp # <<>> /\ iface \in {"read", "poll_read"}) =>
        CASE mp.cursor.part = "Prefix" ->
               mp.cursor.position >= 0 /\ mp.cursor.position < Len(mp.prefix)
          [] mp.cursor.part = "Body" ->
               mp.cursor.position >= 0 /\ mp.cursor.position <= mp.body_len
          [] mp.cursor.part = "Suffix" ->
               mp.cursor.position >= 0 /\ mp.cursor.position < 13
          [] OTHER -> mp.cursor.part = "End" /\ mp.cursor.position = 0


----------------------------------------------------------------------------
(* Properties of the canonical headers *)

\* the names a request is signed with: the caller's and host
SignedNames ==
    {to_lowercase(sig.optional.headers[k].key) : k \in 1..Len(sig.optional.headers)}
    \cup {HOST}

\* the values of the header named n in the order the caller added them; host
\* has the one value generate gives it
ValuesAdded(n) ==
    IF n = HOST THEN <<StorageHost>>
    ELSE sig.optional.headers[CHOOSE k \in 1..Len(sig.optional.headers) :
                                  to_lowercase(sig.optional.headers[k].key) = n].vals

\* the lines "name:value", each as the pair of its name and its value
NameValuePairs(lines) ==
    [k \in 1..Len(lines) |->
        LET parts == SplitOn(lines[k], 58) IN <<parts[1], join(Tail(parts), 58)>>]

\* the header lines are one per signed name, in ascending order of name, each
\* with the values of its name joined by ',' in the order they were added;
\* `signed` is the names of the lines in their order joined by ';'
HeaderBlockCanonical(nv, signed) ==
    /\ Len(nv) = Cardinality(SignedNames)
    /\ {nv[k][1] : k \in 1..Len(nv)} = SignedNames
    /\ \A k \in 1..Len(nv) : nv[k][1] = to_lowercase(nv[k][1])
    /\ \A k \in 1..(Len(nv) - 1) : LexLess(nv[k][1], nv[k + 1][1])
    /\ \A k \in 1..Len(nv) : nv[k][2] = join(ValuesAdded(nv[k][1]), 44)
    /\ signed = join([k \in 1..Len(nv) |-> nv[k][1]], 59)

\* the values of the signed headers that are no visible ASCII
UnrenderableValues ==
    {v \in UNION {{ValuesAdded(n)[k] : k \in 1..Len(ValuesAdded(n))} : n \in SignedNames} :
        \E b \in 1..Len(v) : ~(v[b] \in 32..126 \/ v[b] = 9)}

\* the value X-Goog-SignedHeaders has in the URL of run i
SignedHeadersParam(pairs) ==
    pairs[CHOOSE k \in 1..Len(pairs) : pairs[k][1] = SigningKeys[5]][2]

====
